---- MODULE Spec2Model ----
(***************************************************************************)
(* Model of scripts/solve_network.py of pypsa-earth: the solve driver      *)
(* (solve_network and the script body that calls it), the constraint       *)
(* coordinator extra_functionality with the builders it activates, and the *)
(* outcome check after the solve.                                          *)
(*                                                                         *)
(* Python strings whose content the code inspects (opts tokens, the        *)
(* termination condition, the status) are sequences of one-character       *)
(* strings, so that substring tests and regular expressions are computed.  *)
(* Python dicts read with .get are functions with a partial domain.        *)
(***************************************************************************)
EXTENDS Integers, Sequences, FiniteSets, TLC

(* ------------------------------------------------------------------ *)
(* Bounds of the model                                                 *)
(* ------------------------------------------------------------------ *)
MaxOpts == 2
MaxLines == 2

(* ------------------------------------------------------------------ *)
(* String literals                                                     *)
(* ------------------------------------------------------------------ *)
s_ok == <<"o", "k">>
s_warning == <<"w", "a", "r", "n", "i", "n", "g">>
s_unknown == <<"u", "n", "k", "n", "o", "w", "n">>
c_none == <<>>
c_optimal == <<"o", "p", "t", "i", "m", "a", "l">>
c_infeasible == <<"i", "n", "f", "e", "a", "s", "i", "b", "l", "e">>
c_infeasible_or_unbounded == <<"i", "n", "f", "e", "a", "s", "i", "b", "l", "e", "_", "o", "r", "_", "u", "n", "b", "o", "u", "n", "d", "e", "d">>
c_time_limit == <<"t", "i", "m", "e", "_", "l", "i", "m", "i", "t">>
c_suboptimal == <<"s", "u", "b", "o", "p", "t", "i", "m", "a", "l">>
t_BAU == <<"B", "A", "U">>
t_SAFE == <<"S", "A", "F", "E">>
t_CCL == <<"C", "C", "L">>
t_RES == <<"R", "E", "S">>
t_EQ == <<"E", "Q">>
t_Co2L == <<"C", "o", "2", "L">>
t_EQ07c == <<"E", "Q", "0", ".", "7", "c">>
t_EQ1 == <<"E", "Q", "1">>
t_RES05 == <<"R", "E", "S", "0", ".", "5">>
t_EQ0 == <<"E", "Q", "0">>

Digits == {"0", "1", "2", "3", "4", "5", "6", "7", "8", "9"}

DigitVal(c) == CASE c = "0" -> 0 [] c = "1" -> 1 [] c = "2" -> 2 [] c = "3" -> 3
                 [] c = "4" -> 4 [] c = "5" -> 5 [] c = "6" -> 6 [] c = "7" -> 7
                 [] c = "8" -> 8 [] c = "9" -> 9

(* ------------------------------------------------------------------ *)
(* Python string and list primitives                                   *)
(* ------------------------------------------------------------------ *)
\* sub in s, for strings: sub occurs as a contiguous substring of s
StrContains(s, sub) ==
    \E i \in 1..(Len(s) + 1) :
        /\ i + Len(sub) - 1 <= Len(s)
        /\ SubSeq(s, i, i + Len(sub) - 1) = sub

\* x in xs, for lists: some element equals x
ListContains(xs, x) == \E i \in 1..Len(xs) : xs[i] = x

\* s matches [0-9]*\.?[0-9]+ as a whole
IsNumber(s) ==
    /\ Len(s) >= 1
    /\ s[Len(s)] \in Digits
    /\ \A i \in 1..Len(s) : s[i] \in Digits \cup {"."}
    /\ Cardinality({i \in 1..Len(s) : s[i] = "."}) <= 1

SetMin(S) == CHOOSE x \in S : \A y \in S : x <= y
SetMax(S) == CHOOSE x \in S : \A y \in S : x >= y

\* re.findall("[0-9]*\.?[0-9]+$", o): the matches, here none or the first one
\* (the leftmost start from which the rest of the string is a number)
ResShareMatch(o) ==
    LET I == {i \in 1..Len(o) : IsNumber(SubSeq(o, i, Len(o)))}
    IN  IF I = {} THEN <<>> ELSE <<SubSeq(o, SetMin(I), Len(o))>>

\* re.findall("[0-9]*\.?[0-9]+", o): none or the first match (leftmost start,
\* greedy, which for this expression is the longest match from that start)
FloatRegexMatch(o) ==
    LET I == {i \in 1..Len(o) : \E j \in i..Len(o) : IsNumber(SubSeq(o, i, j))}
    IN  IF I = {} THEN <<>>
        ELSE LET i == SetMin(I)
                 j == SetMax({k \in i..Len(o) : IsNumber(SubSeq(o, i, k))})
             IN  <<SubSeq(o, i, j)>>

RECURSIVE DigitsValue(_)
DigitsValue(s) ==
    IF s = <<>> THEN 0
    ELSE 10 * DigitsValue(SubSeq(s, 1, Len(s) - 1)) + DigitVal(s[Len(s)])

RECURSIVE Normalize(_, _)
Normalize(mant, scale) ==
    IF scale > 0 /\ mant % 10 = 0 THEN Normalize(mant \div 10, scale - 1)
    ELSE <<mant, scale>>

\* float(s) for a string matched by the number expression: the value
\* mant / 10^scale, as the pair <<mant, scale>> in lowest decimal form
Float(s) ==
    LET dots == {i \in 1..Len(s) : s[i] = "."}
        d    == IF dots = {} THEN Len(s) + 1 ELSE SetMin(dots)
        ip   == SubSeq(s, 1, d - 1)
        fp   == SubSeq(s, d + 1, Len(s))
    IN  Normalize(DigitsValue(ip \o fp), Len(fp))

\* dict.get(k, default)
Get(d, k, default) == IF k \in DOMAIN d THEN d[k] ELSE default

(* ------------------------------------------------------------------ *)
(* The optimization problem (n.model) and the builders' context        *)
(* ------------------------------------------------------------------ *)
\* The problem as pypsa builds it before the callback runs: the library's
\* variables, no constraint of this file yet.
\* lower holds the lower bounds of the variables this file adds.
FreshModel == [vars |-> {"Generator-p", "Generator-p_nom", "Link-p", "Link-p_nom"},
               cons |-> {}, lower |-> {}]

\* A coordinator run in progress: the problem, the exception raised so far
\* ("none" while running), the builders called and the log lines written.
Ctx0(m) == [m |-> m, exc |-> "none", calls |-> <<>>, log |-> <<>>]

Raise(ctx, e) == [ctx EXCEPT !.exc = e]
Called(ctx, fn, par) == [ctx EXCEPT !.calls = Append(@, [fn |-> fn, par |-> par])]
Logged(ctx, line) == [ctx EXCEPT !.log = Append(@, line)]

ConsNames(m) == {c.name : c \in m.cons}

\* n.model.add_constraints(..., name=name) / define_constraints(n, ..., name):
\* linopy refuses a name that the problem already holds. par is the content
\* of the constraint, a set of rows.
AddConstraint(ctx, name, par) ==
    IF ctx.exc # "none" THEN ctx
    ELSE IF name \in ConsNames(ctx.m) THEN Raise(ctx, "ValueError")
    ELSE [ctx EXCEPT !.m.cons = @ \cup {[name |-> name, par |-> par]}]

\* n.model.add_variables(lower, np.inf, coords=[sns, gens], name=name): same
\* rule for variables; one variable per snapshot and member of gens, each
\* bounded from below by lower.
AddVariable(ctx, name, lower, gens) ==
    IF ctx.exc # "none" THEN ctx
    ELSE IF name \in ctx.m.vars THEN Raise(ctx, "ValueError")
    ELSE [ctx EXCEPT !.m.vars = @ \cup {name},
                     !.m.lower = @ \cup {[name |-> name, gens |-> gens,
                                          lower |-> lower]}]

(* ------------------------------------------------------------------ *)
(* Network data read by the builders                                   *)
(* ------------------------------------------------------------------ *)
\* n.buses.index and n.buses.country: two buses of one country and one of
\* another, so that grouping by node and grouping by country differ
Buses == {"b1", "b2", "b3"}
Country(b) == IF b = "b3" THEN "B" ELSE "A"

\* a float that may be missing: NaN, or a number
NaN == [nan |-> TRUE, v |-> 0]
Num(x) == [nan |-> FALSE, v |-> x]

\* every cell taken as holding a value
NotNullAlways(x) == TRUE
\* DataArray.notnull(), cell by cell
NotNull(x) == ~x.nan

RECURSIVE SumSet(_, _)
\* Series.sum() / expression.sum(): the sum of f over the labels in S
SumSet(S, f) ==
    IF S = {} THEN 0
    ELSE CHOOSE r \in {f[x] + SumSet(S \ {x}, f) : x \in {CHOOSE y \in S : TRUE}} : TRUE

RECURSIVE SumSeq(_)
SumSeq(q) == IF q = <<>> THEN 0 ELSE q[1] + SumSeq(Tail(q))

\* n.generators.query("p_nom_extendable")
ExtGenerators(net) == {g \in net.generators : g.ext}
\* ext_i.carrier.unique()
ExtCarriers(net) == {g.carrier : g \in ExtGenerators(net)}
Ids(gens) == {g.id : g \in gens}

(* ------------------------------------------------------------------ *)
(* Constraint builders                                                 *)
(* ------------------------------------------------------------------ *)
\* n.generators.p_nom_extendable.any()
AnyExtendableGenerator(net) == ExtGenerators(net) # {}

add_bau_constraints(ctx, net, cfg) ==
    LET c1 == Called(ctx, "add_bau_constraints", <<>>)
        mincaps == cfg.BAU_mincapacities
        \* lhs: per extendable carrier, the sum of its capacity variables
        rows == {[carrier |-> c,
                  gens |-> Ids({g \in ExtGenerators(net) : g.carrier = c}),
                  min |-> Get(mincaps, c, 0)] : c \in ExtCarriers(net)}
    IN  \* mincaps[lhs.indexes["carrier"]]: a label missing from the Series
        \* is a KeyError
        IF ExtCarriers(net) \subseteq DOMAIN mincaps
        THEN AddConstraint(c1, "bau_mincaps", rows)
        ELSE Raise(c1, "KeyError")

\* the peaks of the single loads added up
SumOfPeaks(p_set) ==
    SumSet(Buses, [b \in Buses |-> SetMax({p_set[t][b] : t \in 1..Len(p_set)})])
\* n.loads_t.p_set.sum(axis=1).max(): the largest total over the snapshots
PeakDemand(p_set) == SetMax({SumSet(Buses, p_set[t]) : t \in 1..Len(p_set)})

\* The margin is held in thousandths and the bound in thousandths of a MW:
\* rhs = peakdemand * (1.0 + SAFE_reservemargin) - exist_conv_caps
add_safe_constraints(ctx, net, cfg) ==
    LET c1 == Called(ctx, "add_safe_constraints", <<>>)
        conv == cfg.conventional_carriers
        ext_gens_i == {g \in net.generators : g.carrier \in conv /\ g.ext}
        exist == {g \in net.generators : ~g.ext /\ g.carrier \in conv}
        exist_conv_caps == SumSet(Ids(exist),
                                  [i \in Ids(exist) |->
                                      (CHOOSE g \in exist : g.id = i).p_nom])
        reserve_margin == PeakDemand(net.p_set) * (1000 + cfg.SAFE_reservemargin)
        rhs == reserve_margin - 1000 * exist_conv_caps
    IN  AddConstraint(c1, "safe_mintotalcap",
                      {[gens |-> Ids(ext_gens_i), rhs |-> rhs]})

add_ccl_constraints(ctx, net, cfg) ==
    LET c1 == Called(ctx, "add_ccl_constraints", <<>>)
        table == net.agg_p_nom_minmax
        \* lhs: a grid carrier x country over the extendable generators
        cells == {<<Country(g.bus), c>> : g \in ExtGenerators(net), c \in ExtCarriers(net)}
        gens(cell) == Ids({g \in ExtGenerators(net) :
                              Country(g.bus) = cell[1] /\ g.carrier = cell[2]})
        \* table[col] reindexed like lhs: NaN where the table has no row
        matrix(col) == [cell \in cells |->
                           IF \E r \in table.rows : r.country = cell[1] /\ r.carrier = cell[2]
                           THEN (CHOOSE r \in table.rows :
                                    r.country = cell[1] /\ r.carrier = cell[2])[col]
                           ELSE NaN]
        \* the rows of the constraint left by mask = matrix.notnull()
        masked(col) == {[country |-> cell[1], carrier |-> cell[2],
                         gens |-> gens(cell), bound |-> matrix(col)[cell].v] :
                           cell \in {x \in cells : NotNull(matrix(col)[x])}}
    IN  IF table.readable
        THEN AddConstraint(
                 AddConstraint(Logged(c1, "info:ccl"), "agg_p_nom_min", masked("min")),
                 "agg_p_nom_max", masked("max"))
        ELSE \* the IOError is logged and dropped; agg_p_nom_minmax stays unbound
             Raise(Logged(Logged(c1, "exception:ccl_file"), "info:ccl"),
                   "UnboundLocalError")

\* n.snapshots, as positions in the time series
Snapshots(net) == 1..Len(net.p_set)

\* n.generators_t.p_max_pu.columns: the generators with an availability
\* series. net.p_max_pu holds the series by name; the columns are those of
\* the generators the network has.
Vres(net) == DOMAIN net.p_max_pu \cap Ids(net.generators)

\* get_as_dense(n, "Generator", "p_max_pu"), in hundredths: the series of the
\* generator where it has one, the static value 1.0 otherwise
DensePMaxPu(net, g, t) == IF g \in Vres(net) THEN net.p_max_pu[g][t] ELSE 100

\* n.generators.p_nom[g]
PNom(net, g) == (CHOOSE r \in net.generators : r.id = g).p_nom

\* a term of a row that is absent
NoTerm == [var |-> "-", coeff |-> 0]

\* Coefficients are in hundredths and right-hand sides in ten-thousandths
\* of a MW; EPSILON_LOAD and EPSILON_VRES are in hundredths. One row per
\* snapshot: sum of the reserve variables minus EPSILON_VRES x capacity
\* factor x capacity variable over the extendable generators with a series
\* >= EPSILON_LOAD x demand + EPSILON_VRES x potential + CONTINGENCY
add_operational_reserve_margin_constraint(ctx, net, cfg) ==
    LET gens == Ids(net.generators)
        ext_i == Ids(ExtGenerators(net))
        vres_i == Vres(net)
        c1 == AddVariable(ctx, "Generator-r", 0, gens)
        renewable(t) ==
            IF ext_i # {} /\ vres_i # {}
            THEN {[var |-> g, coeff |-> 0 - cfg.epsilon_vres * net.p_max_pu[g][t]] :
                     g \in vres_i \cap ext_i}
            ELSE {}
        demand(t) == SumSet(Buses, net.p_set[t])
        potential(t) == SumSet(vres_i \ ext_i,
                               [g \in vres_i \ ext_i |->
                                   net.p_max_pu[g][t] * PNom(net, g)])
        rhs(t) == cfg.epsilon_load * 100 * demand(t)
                     + cfg.epsilon_vres * potential(t)
                     + 10000 * cfg.contingency
    IN  AddConstraint(c1, "reserve_margin",
                      {[t |-> t, reserve |-> gens, capacity |-> renewable(t),
                        rhs |-> rhs(t)] : t \in Snapshots(net)})

\* the right-hand side with the availability of fixed generators left out
CapacityRhsStatic(net, g, t) ==
    IF g \in Ids(ExtGenerators(net)) THEN 0 ELSE 100 * PNom(net, g)
\* (p_max_pu[fix_i] * capacity_fixed).reindex(columns=gen_i, fill_value=0):
\* in hundredths of a MW
CapacityRhs(net, g, t) ==
    IF g \in Ids(ExtGenerators(net)) THEN 0
    ELSE DensePMaxPu(net, g, t) * PNom(net, g)

\* The capacity variable keeps its dimension "Generator-ext" (it is not
\* renamed to "Generator" as on line 383), and p_max_pu[ext_i] has the
\* dimensions (snapshot, Generator): their product is taken over every pair
\* (e, g) of extendable generators, then joined with dispatch + reserve over
\* all generators. One row per (e, g, t), in hundredths:
\*   dispatch(g,t) + reserve(g,t) - p_max_pu(g,t) x capacity(e) <= rhs(g,t)
\* where the capacity term exists for extendable g only. Without extendable
\* generators there is no such dimension (e = "-").
update_capacity_constraint(ctx, net) ==
    LET gen_i == Ids(net.generators)
        ext_i == Ids(ExtGenerators(net))
        ext_dim == IF ext_i = {} THEN {"-"} ELSE ext_i
        rows == {[ext |-> e, gen |-> g, t |-> t,
                  dispatch |-> 100, reserve |-> 100,
                  capacity |-> IF g \in ext_i
                               THEN [var |-> e, coeff |-> 0 - DensePMaxPu(net, g, t)]
                               ELSE NoTerm,
                  rhs |-> CapacityRhs(net, g, t)] :
                    e \in ext_dim, g \in gen_i, t \in Snapshots(net)}
    IN  AddConstraint(ctx, "gen_updated_capacity_constraint", rows)

add_operational_reserve_margin(ctx, net, cfg) ==
    LET c1 == Called(ctx, "add_operational_reserve_margin", <<>>)
        c2 == add_operational_reserve_margin_constraint(c1, net, cfg)
    IN  update_capacity_constraint(c2, net)

\* add_res_constraints queries "carrier in @res_techs", "@charger" and
\* "@discharger": names bound neither in the function nor in the module.
add_res_constraints(ctx, net, res_share) ==
    Raise(Logged(Called(ctx, "add_res_constraints", res_share), "warning:res_wip"),
          "UndefinedVariableError")

\* grouping by node whatever the token
GrouperByBus(o, b) == b
\* ggrouper, lgrouper, sgrouper: the country of the bus for a token that ends
\* in "c", the bus otherwise
Grouper(o, b) == IF o[Len(o)] = "c" THEN Country(b) ELSE b

add_eq_constraints(ctx, net, o) ==
    LET found == FloatRegexMatch(o)
    IN  IF found = <<>>
        THEN Raise(Called(ctx, "add_eq_constraints", <<>>), "IndexError")
        ELSE LET level == Float(found[1])
                 par   == level \o <<IF o[Len(o)] = "c" THEN 1 ELSE 0>>
                 grouper(b) == Grouper(o, b)
                 members(grp) == {b \in Buses : grouper(b) = grp}
                 storage == DOMAIN net.inflow
                 w == net.snapshot_weightings
                 load(grp) ==
                     w.generators * SumSeq([t \in 1..Len(net.p_set) |->
                                               SumSet(members(grp), net.p_set[t])])
                 inflow(grp) ==
                     w.stores * SumSet(members(grp) \cap storage,
                                       [b \in members(grp) \cap storage |->
                                           SumSeq(net.inflow[b])])
                 \* one row per group of the load index; both sides carry
                 \* the common factor scaling, left out here
                 rows == {[group |-> grp,
                           gens |-> Ids({g \in net.generators : grouper(g.bus) = grp}),
                           spill |-> IF storage = {} THEN {}
                                     ELSE members(grp) \cap storage,
                           level |-> level,
                           load |-> load(grp),
                           inflow |-> inflow(grp)] :
                             grp \in {grouper(b) : b \in Buses}}
             IN  AddConstraint(Called(ctx, "add_eq_constraints", par),
                               "equity_min", rows)

RECURSIVE Pow10(_)
Pow10(k) == IF k = 0 THEN 1 ELSE 10 * Pow10(k - 1)

\* lhs >= rhs for one row of equity_min, at a weighted generation gen and a
\* weighted spillage spill of the group: gen - spill >= level * load - inflow
\* with level = level[1] / 10^level[2]
EquityHolds(row, gen, spill) ==
    Pow10(row.level[2]) * (gen - spill)
        >= row.level[1] * row.load - Pow10(row.level[2]) * row.inflow

\* eff[0]: the first element of the Series, whatever the bus
FirstEfficiency(eff, i) == eff[1]

\* net.batteries: the discharger efficiency (in percent) of each battery bus,
\* in the order of n.buses. One row per bus: 1 * charger - eff[0] * discharger = 0
add_battery_constraints(ctx, net) ==
    LET c1 == Called(ctx, "add_battery_constraints", <<>>)
        eff == net.batteries
    IN  IF eff = <<>> THEN c1
        ELSE AddConstraint(c1, "link_charger_ratio",
                           {[bus |-> i, charger |-> 100,
                             discharger |-> 0 - FirstEfficiency(eff, i)] :
                               i \in 1..Len(eff)})

h2_export_yearly_constraint(ctx, net, cfg) ==
    LET c1 == Called(ctx, "h2_export_yearly_constraint", <<>>)
    IN  IF ~net.has_h2_export_load THEN Raise(c1, "KeyError")
        ELSE AddConstraint(c1, "H2ExportConstraint-RESproduction", {})

monthly_constraints(ctx, net, cfg, nref) ==
    LET c1 == Called(ctx, "monthly_constraints", <<>>)
    IN  IF cfg.additionality
        THEN IF nref = "None" THEN Raise(c1, "AttributeError")
             ELSE AddConstraint(c1, "RESconstraints", {[additionality |-> TRUE]})
        ELSE AddConstraint(c1, "RESconstraints", {[additionality |-> FALSE]})

\* "n.variables" belongs to the legacy lopf interface; a network solved
\* through n.optimize carries n.model and no such attribute.
add_h2_network_cap(ctx, net, cap) ==
    LET c1 == Called(ctx, "add_h2_network_cap", <<cap>>)
    IN  IF net.h2_pipelines = "none" THEN c1 ELSE Raise(c1, "AttributeError")

\* get_var and define_constraints come from pypsa.optimization.compat: the
\* variable "Link-p" / "Link-p_nom" of n.model, and a constraint named
\* name-attr. net.chp holds the kinds of CHP pair in the network: "ext" for
\* extendable pairs, "fix" for fixed ones.
add_chp_constraints(ctx, net) ==
    LET c1 == Called(ctx, "add_chp_constraints", <<>>)
        c2 == IF "ext" \in net.chp
              THEN AddConstraint(
                       AddConstraint(c1, "chplink-fix_p_nom_ratio", {}),
                       "chplink-top_iso_fuel_line_ext", {})
              ELSE c1
        c3 == IF "fix" \in net.chp
              THEN AddConstraint(c2, "chplink-top_iso_fuel_line_fix", {})
              ELSE c2
    IN  IF net.chp # {}
        THEN AddConstraint(c3, "chplink-backpressure", {})
        ELSE c3

set_h2_colors(ctx, net, cfg) ==
    AddConstraint(
        AddConstraint(Called(ctx, "set_h2_colors", <<>>), "blue_h2_share", {}),
        "pink_h2_share", {})

add_co2_sequestration_limit(ctx, net) ==
    LET c1 == Called(ctx, "add_co2_sequestration_limit", <<>>)
    IN  IF ~net.has_co2_store THEN c1 ELSE Raise(c1, "AttributeError")

(* ------------------------------------------------------------------ *)
(* The coordinator                                                     *)
(* ------------------------------------------------------------------ *)
\* the token test dropped from the condition
TokenIgnored(tok, opts) == TRUE
\* only the first token of the list looked at
TokenFirstInOpts(tok, opts) == Len(opts) > 0 /\ opts[1] = tok
\* "BAU" in opts, opts being a list of tokens
TokenInOpts(tok, opts) == ListContains(opts, tok)

\* for o in opts: if "RES" in o: res_share = float(findall(...)[0]); add_res_constraints
RECURSIVE ResLoop(_, _, _, _)
ResLoop(ctx, net, opts, i) ==
    IF i > Len(opts) \/ ctx.exc # "none" THEN ctx
    ELSE IF ~StrContains(opts[i], t_RES) THEN ResLoop(ctx, net, opts, i + 1)
    ELSE LET found == ResShareMatch(opts[i])
         IN  IF found = <<>> THEN Raise(ctx, "IndexError")
             ELSE ResLoop(add_res_constraints(ctx, net, Float(found[1])),
                          net, opts, i + 1)

\* for o in opts: if "EQ" in o: add_eq_constraints(n, o)
RECURSIVE EqLoop(_, _, _, _)
EqLoop(ctx, net, opts, i) ==
    IF i > Len(opts) \/ ctx.exc # "none" THEN ctx
    ELSE IF ~StrContains(opts[i], t_EQ) THEN EqLoop(ctx, net, opts, i + 1)
    ELSE EqLoop(add_eq_constraints(ctx, net, opts[i]), net, opts, i + 1)

\* the chain without the is_reference test of the monthly branch
TemporalMatchingIgnoringReference(ctx, net, cfg, nref) ==
    IF ctx.exc # "none" THEN ctx
    ELSE IF cfg.temporal_matching = "h2_yearly_matching"
    THEN h2_export_yearly_constraint(Logged(ctx, "info:yearly"), net, cfg)
    ELSE IF cfg.temporal_matching = "h2_monthly_matching"
    THEN monthly_constraints(Logged(ctx, "info:monthly"), net, cfg, nref)
    ELSE IF cfg.temporal_matching = "no_res_matching"
    THEN Logged(ctx, "info:no_h2_constraint")
    ELSE Raise(ctx, "ValueError")

\* The if/elif chain on policy_config.hydrogen.temporal_matching
TemporalMatching(ctx, net, cfg, nref) ==
    IF ctx.exc # "none" THEN ctx
    ELSE IF cfg.temporal_matching = "h2_yearly_matching"
    THEN LET c1 == IF cfg.additionality
                   THEN Logged(ctx, "info:additionality_unsupported") ELSE ctx
         IN  h2_export_yearly_constraint(Logged(c1, "info:yearly"), net, cfg)
    ELSE IF cfg.temporal_matching = "h2_monthly_matching"
    THEN IF ~cfg.is_reference
         THEN monthly_constraints(Logged(ctx, "info:monthly"), net, cfg, nref)
         ELSE Logged(ctx, "info:reference_case")
    ELSE IF cfg.temporal_matching = "no_res_matching"
    THEN Logged(ctx, "info:no_h2_constraint")
    ELSE Raise(ctx, "ValueError")

Step(ctx, cond, next) == IF ctx.exc # "none" \/ ~cond THEN ctx ELSE next

\* the element of a one-element set: The({e(c) : c \in {x}}) is e(x) with x
\* evaluated once
The(S) == CHOOSE r \in S : TRUE

\* extra_functionality(n, snapshots) on the problem m. nopts and nconfig are
\* the attributes n.opts and n.config: a record [attached, value].
extra_functionality(nopts, nconfig, net, cfg, nref, m) ==
    IF ~nopts.attached \/ ~nconfig THEN Raise(Ctx0(m), "AttributeError")
    ELSE
    LET opts == nopts.value
        c0 == Ctx0(m)
        c1 == The({Step(c, TokenInOpts(t_BAU, opts) /\ AnyExtendableGenerator(net),
                        add_bau_constraints(c, net, cfg)) : c \in {c0}})
        c2 == The({Step(c, TokenInOpts(t_SAFE, opts) /\ AnyExtendableGenerator(net),
                        add_safe_constraints(c, net, cfg)) : c \in {c1}})
        c3 == The({Step(c, TokenInOpts(t_CCL, opts) /\ AnyExtendableGenerator(net),
                        add_ccl_constraints(c, net, cfg)) : c \in {c2}})
        c4 == The({Step(c, cfg.reserve_activate,
                        add_operational_reserve_margin(c, net, cfg)) : c \in {c3}})
        c5 == The({ResLoop(c, net, opts, 1) : c \in {c4}})
        c6 == The({EqLoop(c, net, opts, 1) : c \in {c5}})
        c7 == The({Step(c, TRUE, add_battery_constraints(c, net)) : c \in {c6}})
        c8 == The({TemporalMatching(c, net, cfg, nref) : c \in {c7}})
        c9 == The({Step(c, cfg.h2_network /\ cfg.h2_network_limit # 0,
                        add_h2_network_cap(c, net, cfg.h2_network_limit)) : c \in {c8}})
        c10 == The({Step(c, cfg.set_color_shares,
                         set_h2_colors(Logged(c, "info:h2_colors"), net, cfg)) :
                       c \in {c9}})
    IN  The({Step(c, TRUE, add_co2_sequestration_limit(c, net)) : c \in {c10}})

(* ------------------------------------------------------------------ *)
(* State                                                               *)
(* ------------------------------------------------------------------ *)
VARIABLES
    net,             \* the network n: the component data the code reads
    cfg,             \* snakemake.config and wildcards, as far as they are read
    cf_solving,      \* solving["options"], a dict
    n_opts,          \* the attribute n.opts: [attached, value]
    n_config,        \* TRUE once n.config is attached
    n_ref,           \* the reference network: "None", or "loaded" as read from path_to_ref
    pc,              \* position of the run
    frame,           \* who called n.optimize: "single", "iter" or "none"
    kwargs,          \* the keyword arguments handed to the solve
    skip_iterations, \* the local of solve_network (a Python value, True = 1)
    status,          \* status returned by the solve
    condition,       \* termination condition returned by the solve
    exc,             \* the exception that ended the run, "none" otherwise
    log,             \* what the driver logged, in order
    problems,        \* the optimization problems built so far, latest last
    lib_calls,       \* calls of the two solve entry points made by the driver
    n_meta,          \* TRUE once n.meta is set
    exported,        \* number of network files written
    np_random        \* the state of numpy's global random generator

vars == <<net, cfg, cf_solving, n_opts, n_config, n_ref, pc, frame, kwargs,
          skip_iterations, status, condition, exc, log, problems, lib_calls,
          n_meta, exported, np_random>>

inputs == <<net, cfg, cf_solving, n_opts, n_ref, np_random>>

(* ------------------------------------------------------------------ *)
(* Python values                                                       *)
(* ------------------------------------------------------------------ *)
Unset == [type |-> "unset", val |-> 0]
PyInt(v) == [type |-> "int", val |-> v]
\* (v,) : a tuple of one element
PyTuple1(v) == [type |-> "tuple", val |-> v]

\* truth value of a Python bool or int
Truthy(v) == v # 0

(* ------------------------------------------------------------------ *)
(* solve_network                                                       *)
(* ------------------------------------------------------------------ *)
\* n.lines.s_nom_extendable.any(); lines is the column s_nom_extendable
AnyExtendableLine(lines) == \E i \in 1..Len(lines) : lines[i]

\* the configured value alone, without the override for fixed lines
SkipIterationsFromConfig(cf, lines) == Get(cf, "skip_iterations", 0)
\* skip_iterations as solve_network decides it
SkipIterations(cf, lines) ==
    IF ~AnyExtendableLine(lines) THEN 1 ELSE Get(cf, "skip_iterations", 0)

\* kwargs without the callback
SolveKwargsNoCallback ==
    [callback |-> FALSE, track_iterations |-> Unset,
     min_iterations |-> Unset, max_iterations |-> Unset]
\* kwargs before the branch: solver options and name (not modelled) and the
\* constraint callback
SolveKwargs ==
    [callback |-> TRUE, track_iterations |-> Unset,
     min_iterations |-> Unset, max_iterations |-> Unset]

\* kwargs of the iterative call: each limit is written with a trailing comma
IterationKwargs(kw, cf) ==
    [kw EXCEPT !.track_iterations = PyTuple1(Get(cf, "track_iterations", 0)),
               !.min_iterations = PyTuple1(Get(cf, "min_iterations", 4)),
               !.max_iterations = PyTuple1(Get(cf, "max_iterations", 6))]

\* equality in place of the substring test
InfeasibleExact(cond) == cond = c_infeasible
\* any condition but "optimal" taken as fatal
NotOptimal(cond) == cond # c_optimal
\* "infeasible" in condition
IsInfeasible(cond) == StrContains(cond, c_infeasible)

\* The check after the solve: the lines logged and the exception raised
OutcomeReport(st, cond) ==
    LET l1 == IF st # s_ok THEN <<"warning:status">> ELSE <<>>
    IN  IF IsInfeasible(cond)
        THEN [log |-> l1 \o <<"compute_infeasibilities", "info:labels",
                               "print_infeasibilities">>,
              exc |-> "RuntimeError"]
        ELSE [log |-> l1, exc |-> "none"]

\* lines 968-982
Setup ==
    /\ pc = "solve_network"
    /\ kwargs' = SolveKwargs
    /\ skip_iterations' = SkipIterations(cf_solving, net.lines)
    /\ log' = IF ~AnyExtendableLine(net.lines)
              THEN Append(log, "info:no_expandable_lines") ELSE log
    /\ n_config' = TRUE
    /\ pc' = "dispatch"
    /\ UNCHANGED <<inputs, frame, status, condition, exc, problems, lib_calls,
                   n_meta, exported>>

\* line 985: status, condition = n.optimize(**kwargs)
CallOptimize ==
    /\ pc = "dispatch"
    /\ Truthy(skip_iterations)
    /\ lib_calls' = [lib_calls EXCEPT !.optimize = @ + 1]
    /\ frame' = "single"
    /\ pc' = "opt_build"
    /\ UNCHANGED <<inputs, n_config, kwargs, skip_iterations, status, condition,
                   exc, log, problems, n_meta, exported>>

\* lines 987-992: n.optimize.optimize_transmission_expansion_iteratively(**kwargs)
CallIterative ==
    /\ pc = "dispatch"
    /\ ~Truthy(skip_iterations)
    /\ kwargs' = IterationKwargs(kwargs, cf_solving)
    /\ lib_calls' = [lib_calls EXCEPT !.iterative = @ + 1]
    /\ frame' = "iter"
    /\ pc' = "iter_entry"
    /\ UNCHANGED <<inputs, n_config, skip_iterations, status, condition, exc,
                   log, problems, n_meta, exported>>

(* ------------------------------------------------------------------ *)
(* The solve as the driver sees it (pypsa)                             *)
(* ------------------------------------------------------------------ *)
\* What a solve can return: (status, termination condition)
Outcomes == {<<s_ok, c_optimal>>, <<s_warning, c_infeasible>>,
             <<s_warning, c_infeasible_or_unbounded>>,
             <<s_warning, c_time_limit>>, <<s_warning, c_suboptimal>>,
             <<s_unknown, s_unknown>>}

\* some link of the network is extendable: battery chargers and dischargers
\* are, pipelines and CHP pairs may be
HasExtendableLink(n) ==
    n.batteries # <<>> \/ n.h2_pipelines = "extendable" \/ "ext" \in n.chp

\* The problem n.optimize builds for the network n: a capacity variable
\* exists for a component only if one of its members is extendable
BuiltModel(n) ==
    [FreshModel EXCEPT !.vars =
        (@ \ (IF HasExtendableLink(n) THEN {} ELSE {"Link-p_nom"}))
           \ (IF AnyExtendableGenerator(n) THEN {} ELSE {"Generator-p_nom"})]

NewProblem == [m |-> BuiltModel(net), coord |-> 0, solved |-> 0, calls |-> <<>>]

\* n.optimize builds a fresh problem for the run
BuildProblem ==
    /\ pc = "opt_build"
    /\ problems' = Append(problems, NewProblem)
    /\ pc' = "opt_callback"
    /\ UNCHANGED <<inputs, n_config, frame, kwargs, skip_iterations, status,
                   condition, exc, log, lib_calls, n_meta, exported>>

\* weightings and monthly sums applied to the reference network in place
ReferenceAfterInPlace(nref, calls) ==
    IF nref = "loaded" /\ \E i \in 1..Len(calls) : calls[i].fn = "monthly_constraints"
    THEN "rescaled" ELSE nref
\* the reference network after a run of the callback that made the calls:
\* monthly_constraints, the one function handed n_ref, indexes it and builds
\* new frames from what it reads (lines 698-709), no builder assigns to it
ReferenceAfter(nref, calls) == nref

\* n.optimize calls the callback it was given on the problem just built;
\* an exception of the callback leaves n.optimize and solve_network
Callback ==
    /\ pc = "opt_callback"
    /\ LET k == Len(problems)
           r == extra_functionality(n_opts, n_config, net, cfg, n_ref, problems[k].m)
       IN  IF kwargs.callback
           THEN /\ problems' = [problems EXCEPT ![k] =
                                   [m |-> r.m, coord |-> @.coord + 1,
                                    solved |-> @.solved, calls |-> r.calls]]
                /\ exc' = r.exc
                /\ n_ref' = ReferenceAfter(n_ref, r.calls)
                /\ pc' = IF r.exc = "none" THEN "opt_solve" ELSE "raised"
           ELSE /\ pc' = "opt_solve"
                /\ UNCHANGED <<problems, exc, n_ref>>
    /\ UNCHANGED <<net, cfg, cf_solving, n_opts, np_random, n_config, frame,
                   kwargs, skip_iterations, status, condition, log, lib_calls,
                   n_meta, exported>>

\* the solver runs on the problem and n.optimize returns its outcome
SolverRun ==
    /\ pc = "opt_solve"
    /\ \E o \in Outcomes :
         /\ problems' = [problems EXCEPT ![Len(problems)].solved = @ + 1]
         /\ IF frame = "single"
            THEN /\ status' = o[1]
                 /\ condition' = o[2]
                 /\ pc' = "check"
            ELSE /\ pc' = "iter_after"
                 /\ UNCHANGED <<status, condition>>
    /\ UNCHANGED <<inputs, n_config, frame, kwargs, skip_iterations, exc, log,
                   lib_calls, n_meta, exported>>

\* The iterative solve starts its first n.optimize
IterativeSolve ==
    /\ pc = "iter_entry"
    /\ pc' = "opt_build"
    /\ UNCHANGED <<inputs, n_config, frame, kwargs, skip_iterations, status,
                   condition, exc, log, problems, lib_calls, n_meta, exported>>

\* An iteration limit is usable as a number only if it is an int
UsableLimit(v) == v.type = "int"

\* The iterative solve reads its limits, before its first solve or after it:
\* a limit that is no number cannot be compared with the iteration count
IterationLimit ==
    /\ pc \in {"iter_entry", "iter_after"}
    /\ ~(UsableLimit(kwargs.min_iterations) /\ UsableLimit(kwargs.max_iterations))
    /\ exc' = "TypeError"
    /\ pc' = "raised"
    /\ UNCHANGED <<inputs, n_config, frame, kwargs, skip_iterations, status,
                   condition, log, problems, lib_calls, n_meta, exported>>

\* lines 994-1004
CheckOutcome ==
    /\ pc = "check"
    /\ LET r == OutcomeReport(status, condition)
       IN  /\ log' = log \o r.log
           /\ exc' = r.exc
           /\ pc' = IF r.exc = "none" THEN "returned" ELSE "raised"
    /\ UNCHANGED <<inputs, n_config, frame, kwargs, skip_iterations, status,
                   condition, problems, lib_calls, n_meta, exported>>

(* ------------------------------------------------------------------ *)
(* The script                                                          *)
(* ------------------------------------------------------------------ *)
\* lines 1045-1055: the reference network is loaded or None
LoadReference(c) ==
    IF /\ c.additionality
       /\ ~c.is_reference
       /\ c.temporal_matching # "no_res_matching"
       /\ c.sector_coupled
    THEN "loaded" ELSE "None"

\* lines 1069-1071, after solve_network returned n
Export ==
    /\ pc = "returned"
    /\ log' = Append(log, "info:memory")
    /\ n_meta' = TRUE
    /\ exported' = exported + 1
    /\ pc' = "done"
    /\ UNCHANGED <<inputs, n_config, frame, kwargs, skip_iterations, status,
                   condition, exc, problems, lib_calls>>

(* ------------------------------------------------------------------ *)
(* Inputs                                                              *)
(* ------------------------------------------------------------------ *)
Tokens == {t_BAU, t_SAFE, t_CCL, t_RES05, t_EQ07c, t_EQ1, t_Co2L}

\* lists of at most k tokens
OptsLists(k) == UNION {[1..len -> Tokens] : len \in 0..k}

\* n.opts: missing, as on a network loaded from file, or attached by the caller
OptsAttributes(k) ==
    {[attached |-> FALSE, value |-> <<>>]}
        \cup {[attached |-> TRUE, value |-> o] : o \in OptsLists(k)}

\* the column n.lines.s_nom_extendable
LineColumns == UNION {[1..len -> BOOLEAN] : len \in 0..MaxLines}

\* solving["options"]: each key present or absent
SolvingOptions ==
    {[k \in (IF s = {} THEN {} ELSE {"skip_iterations"})
            \cup (IF mn = {} THEN {} ELSE {"min_iterations"})
            \cup (IF mx = {} THEN {} ELSE {"max_iterations"}) |->
        CASE k = "skip_iterations" -> CHOOSE v \in s : TRUE
          [] k = "min_iterations" -> CHOOSE v \in mn : TRUE
          [] k = "max_iterations" -> CHOOSE v \in mx : TRUE] :
     s \in {{}, {0}, {1}}, mn \in {{}, {2}}, mx \in {{}, {3}}}

TemporalValues == {"h2_yearly_matching", "h2_monthly_matching",
                   "no_res_matching", "h2_hourly_matching"}

\* configurations; additionality, is_reference and the sopts wildcard vary
\* where the code reads them
Configs(flags) ==
    {c \in [temporal_matching : TemporalValues,
            additionality : BOOLEAN,
            is_reference : BOOLEAN,
            sector_coupled : BOOLEAN,
            reserve_activate : flags,
            h2_network : flags,
            h2_network_limit : {0, 2000},
            set_color_shares : flags,
            epsilon_load : {2},
            epsilon_vres : {2},
            contingency : {4000},
            BAU_mincapacities : {[k \in {"gas"} |-> 150000]},
            SAFE_reservemargin : {100},
            conventional_carriers : {{"gas"}}] :
        /\ c.temporal_matching # "h2_monthly_matching"
              => ~c.is_reference /\ ~c.additionality
        /\ ~(c.additionality /\ ~c.is_reference) => c.sector_coupled
        /\ c.h2_network_limit # 0 <=> c.h2_network}

\* n.generators: the rows the networks are made of
G1 == [id |-> "g1", bus |-> "b1", carrier |-> "gas", ext |-> TRUE, p_nom |-> 0]
G2 == [id |-> "g2", bus |-> "b2", carrier |-> "wind", ext |-> TRUE, p_nom |-> 0]
G3 == [id |-> "g3", bus |-> "b3", carrier |-> "gas", ext |-> TRUE, p_nom |-> 0]
G4 == [id |-> "g4", bus |-> "b2", carrier |-> "gas", ext |-> FALSE, p_nom |-> 300]
G5 == [id |-> "g5", bus |-> "b1", carrier |-> "wind", ext |-> FALSE, p_nom |-> 200]
GeneratorRows == {G1, G2, G3, G4}

\* n.generators_t.p_max_pu, in hundredths: a series for the wind generators
Avail1 == [g \in {"g2", "g5"} |-> <<50, 100>>]
Avail2 == [g \in {"g2", "g5"} |-> <<0, 30>>]

\* n.loads_t.p_set: per snapshot, the demand (MW) of the load at each bus
Demand(a, b, c) ==
    [x \in Buses |-> CASE x = "b1" -> a [] x = "b2" -> b [] x = "b3" -> c]
D1 == <<Demand(600, 0, 400), Demand(400, 0, 400)>>
D2 == <<Demand(600, 0, 0), Demand(0, 100, 400)>>

\* n.snapshot_weightings: hourly or three-hourly snapshots
W1 == [generators |-> 1, stores |-> 1]
W3 == [generators |-> 3, stores |-> 3]

\* n.storage_units_t.inflow: no column, or one storage unit at b1
NoInflow == [b \in {} |-> <<>>]
Inflow1 == [b \in {"b1"} |-> <<50, 30>>]

\* agg_p_nom_minmax.csv: missing, or rows (country, carrier, min, max)
Unreadable == [readable |-> FALSE, rows |-> {}]
Limits1 ==
    [readable |-> TRUE,
     rows |-> {[country |-> "A", carrier |-> "gas", min |-> Num(100), max |-> NaN],
               [country |-> "B", carrier |-> "wind", min |-> NaN, max |-> Num(500)]}]
Limits2 ==
    [readable |-> TRUE,
     rows |-> {[country |-> "A", carrier |-> "gas", min |-> Num(100), max |-> Num(1000)],
               [country |-> "A", carrier |-> "wind", min |-> NaN, max |-> NaN],
               [country |-> "B", carrier |-> "gas", min |-> Num(50), max |-> NaN]}]

Networks(cols) ==
    [lines : cols,
     generators : {{}, {G1}, {G1, G2}},
     p_set : {D1},
     snapshot_weightings : {W1},
     p_max_pu : {Avail1},
     inflow : {NoInflow},
     agg_p_nom_minmax : {Unreadable, Limits1},
     batteries : {<<>>, <<90>>},
     chp : {{}},
     has_h2_export_load : BOOLEAN,
     h2_pipelines : {"none", "extendable"},
     has_co2_store : BOOLEAN]

(* ------------------------------------------------------------------ *)
(* The script run                                                      *)
(* ------------------------------------------------------------------ *)
\* Nothing in the script sets n.opts: the network comes from pypsa.Network(path)
\* and solve_network attaches n.config only, while extra_functionality expects
\* the caller to have attached opts (line 900). Both kinds of network are
\* inputs of the run: one without the attribute and one that carries it.
ScriptNetworks ==
    {n \in Networks(LineColumns) :
        /\ n.agg_p_nom_minmax.readable /\ n.batteries # <<>>
        /\ n.has_h2_export_load = (n.h2_pipelines # "none")
        /\ n.has_h2_export_load = n.has_co2_store
        /\ n.generators # {G1}}
ScriptConfigs == Configs({FALSE})
ScriptOpts == OptsAttributes(1)

\* The state in which the script calls solve_network (line 1062)
Init ==
    /\ net \in ScriptNetworks
    /\ cfg \in ScriptConfigs
    /\ cf_solving \in SolvingOptions
    /\ n_opts \in ScriptOpts
    /\ n_config = FALSE
    /\ n_ref = LoadReference(cfg)
    /\ pc = "solve_network"
    /\ frame = "none"
    /\ kwargs = [callback |-> FALSE, track_iterations |-> Unset,
                 min_iterations |-> Unset, max_iterations |-> Unset]
    /\ skip_iterations = 0
    /\ status = c_none
    /\ condition = c_none
    /\ exc = "none"
    /\ log = <<>>
    /\ problems = <<>>
    /\ lib_calls = [optimize |-> 0, iterative |-> 0]
    /\ n_meta = FALSE
    /\ exported = 0
    /\ np_random = 0

Next ==
    \/ Setup
    \/ CallOptimize
    \/ CallIterative
    \/ BuildProblem
    \/ Callback
    \/ SolverRun
    \/ IterativeSolve
    \/ IterationLimit
    \/ CheckOutcome
    \/ Export

Spec == Init /\ [][Next]_vars

(* ------------------------------------------------------------------ *)
(* The coordinator on its own                                          *)
(* ------------------------------------------------------------------ *)
\* extra_functionality run once more against the problem it has run on
Reinvoke ==
    /\ pc = "opt_solve"
    /\ frame = "coordinator"
    /\ LET r == extra_functionality(n_opts, n_config, net, cfg, n_ref, problems[1].m)
       IN  /\ problems' = [problems EXCEPT ![1] =
                              [m |-> r.m, coord |-> @.coord + 1,
                               solved |-> @.solved, calls |-> r.calls]]
           /\ exc' = r.exc
           /\ n_ref' = ReferenceAfter(n_ref, r.calls)
           /\ pc' = IF r.exc = "none" THEN "reinvoked" ELSE "raised"
    /\ UNCHANGED <<net, cfg, cf_solving, n_opts, np_random, n_config, frame,
                   kwargs, skip_iterations, status, condition, log, lib_calls,
                   n_meta, exported>>

\* networks whose limits table can be read, as in the script run
CoordinatorNetworks ==
    {n \in Networks({<<>>}) :
        /\ n.agg_p_nom_minmax.readable
        /\ n.has_h2_export_load = (n.h2_pipelines # "none")
        /\ n.has_h2_export_load = n.has_co2_store}
CoordinatorConfigs == {c \in Configs(BOOLEAN) : c.set_color_shares = c.h2_network}
CoordinatorOpts == OptsAttributes(MaxOpts)

\* A problem has been built and the callback is about to run on it
InitCoordinator ==
    /\ net \in CoordinatorNetworks
    /\ cfg \in CoordinatorConfigs
    /\ cf_solving = <<>>
    /\ n_opts \in CoordinatorOpts
    /\ n_config = TRUE
    /\ n_ref = LoadReference(cfg)
    /\ pc = "opt_callback"
    /\ frame = "coordinator"
    /\ kwargs = SolveKwargs
    /\ skip_iterations = 1
    /\ status = c_none
    /\ condition = c_none
    /\ exc = "none"
    /\ log = <<>>
    /\ problems = <<NewProblem>>
    /\ lib_calls = [optimize |-> 1, iterative |-> 0]
    /\ n_meta = FALSE
    /\ exported = 0
    /\ np_random = 0

NextCoordinator == Callback \/ Reinvoke

SpecCoordinator == InitCoordinator /\ [][NextCoordinator]_vars

(* ------------------------------------------------------------------ *)
(* The builders on networks with component data                        *)
(* ------------------------------------------------------------------ *)
\* networks that differ in generators, demand and capacity limits
CapacityNetworks ==
    [lines : {<<>>},
     generators : SUBSET GeneratorRows,
     p_set : {D1, D2},
     snapshot_weightings : {W1},
     p_max_pu : {Avail1},
     inflow : {NoInflow},
     agg_p_nom_minmax : {Unreadable, Limits1, Limits2},
     batteries : {<<>>},
     chp : {{}},
     has_h2_export_load : {FALSE},
     h2_pipelines : {"none"},
     has_co2_store : {FALSE}]

\* networks that differ in demand, snapshot weightings and storage inflow
DispatchNetworks ==
    [lines : {<<>>},
     generators : {{G1, G2}, {G1, G3, G4}},
     p_set : {D1, D2},
     snapshot_weightings : {W1, W3},
     p_max_pu : {Avail1},
     inflow : {NoInflow, Inflow1},
     agg_p_nom_minmax : {Limits1},
     batteries : {<<>>},
     chp : {{}},
     has_h2_export_load : {FALSE},
     h2_pipelines : {"none"},
     has_co2_store : {FALSE}]

\* networks that differ in batteries, CHP pairs and hydrogen / CO2 components
SectorNetworks ==
    {n \in [lines : {<<>>},
            generators : {{G1, G2}},
            p_set : {D1},
            snapshot_weightings : {W1},
            p_max_pu : {Avail1},
            inflow : {NoInflow},
            agg_p_nom_minmax : {Limits1},
            batteries : {<<>>, <<90>>, <<90, 96>>, <<96, 90>>},
            chp : SUBSET {"ext", "fix"},
            has_h2_export_load : BOOLEAN,
            h2_pipelines : {"none", "fixed", "extendable"},
            has_co2_store : BOOLEAN] :
        n.has_h2_export_load = n.has_co2_store}

BuilderNetworks == CapacityNetworks \cup DispatchNetworks \cup SectorNetworks

\* networks that differ in the mix of extendable and fixed generators and
\* in the availability of the wind generators
ReserveNetworks ==
    [lines : {<<>>},
     generators : SUBSET {G1, G2, G3, G4, G5},
     p_set : {D1, D2},
     snapshot_weightings : {W1},
     p_max_pu : {Avail1, Avail2},
     inflow : {NoInflow},
     agg_p_nom_minmax : {Limits1},
     batteries : {<<>>},
     chp : {{}},
     has_h2_export_load : {FALSE},
     h2_pipelines : {"none"},
     has_co2_store : {FALSE}]

\* operational_reserve.activate set, no hydrogen policy
ReserveConfigs ==
    {d \in Configs(BOOLEAN) :
        /\ d.reserve_activate
        /\ ~d.h2_network /\ ~d.set_color_shares
        /\ d.temporal_matching = "no_res_matching"}

BuilderConfigs ==
    {[c EXCEPT !.SAFE_reservemargin = m] :
        c \in {d \in Configs(BOOLEAN) :
                  /\ ~d.reserve_activate
                  /\ d.set_color_shares = d.h2_network
                  /\ d.temporal_matching \in {"no_res_matching", "h2_yearly_matching"}},
        m \in {100, 250}}

\* n.opts attached by the caller: no token or one
BuilderOpts ==
    {[attached |-> TRUE, value |-> o] :
        o \in {<<>>} \cup {<<t>> : t \in Tokens \cup {t_EQ0}}}

InitBuilders ==
    /\ \/ /\ net \in BuilderNetworks
          /\ cfg \in BuilderConfigs
          /\ n_opts \in BuilderOpts
       \/ /\ net \in ReserveNetworks
          /\ cfg \in ReserveConfigs
          /\ n_opts = [attached |-> TRUE, value |-> <<>>]
    /\ cf_solving = <<>>
    /\ n_config = TRUE
    /\ n_ref = LoadReference(cfg)
    /\ pc = "opt_callback"
    /\ frame = "coordinator"
    /\ kwargs = SolveKwargs
    /\ skip_iterations = 1
    /\ status = c_none
    /\ condition = c_none
    /\ exc = "none"
    /\ log = <<>>
    /\ problems = <<NewProblem>>
    /\ lib_calls = [optimize |-> 1, iterative |-> 0]
    /\ n_meta = FALSE
    /\ exported = 0
    /\ np_random = 0

SpecBuilders == InitBuilders /\ [][NextCoordinator]_vars

(* ------------------------------------------------------------------ *)
(* Properties                                                          *)
(* ------------------------------------------------------------------ *)
Latest == problems[Len(problems)]
CalledFns(calls) == {calls[i].fn : i \in 1..Len(calls)}
CallSet(calls) == {calls[i] : i \in 1..Len(calls)}
CountCalls(calls, fn) == Cardinality({i \in 1..Len(calls) : calls[i].fn = fn})
Logs(line) == \E i \in 1..Len(log) : log[i] = line
ValidMatching == {"h2_yearly_matching", "h2_monthly_matching", "no_res_matching"}

\* C1: with no extendable line (no line at all included) the driver calls
\* n.optimize and never the iterative solve, whatever skip_iterations is
\* configured: never more than one call, and exactly one once it has branched.
C1_SinglePlainSolve ==
    ~AnyExtendableLine(net.lines) =>
        /\ lib_calls.iterative = 0
        /\ lib_calls.optimize <= 1
        /\ pc \notin {"solve_network", "dispatch"} => lib_calls.optimize = 1

\* the run is over, no line is extendable although lines exist, and the
\* configuration asked for iterations
C1_Witness ==
    /\ pc = "done"
    /\ Len(net.lines) > 0
    /\ ~AnyExtendableLine(net.lines)
    /\ "skip_iterations" \in DOMAIN cf_solving
    /\ cf_solving["skip_iterations"] = 0
    /\ lib_calls.optimize = 1

\* C2: when the termination condition returned by the solve contains
\* "infeasible", solve_network raises RuntimeError with the infeasibility
\* report computed and logged before it; the network is not returned, the
\* metadata is not set and nothing is exported.
C2_InfeasibleIsFatal ==
    StrContains(condition, c_infeasible) =>
        /\ pc \in {"check", "raised"}
        /\ ~n_meta
        /\ exported = 0
        /\ pc = "raised" =>
              /\ exc = "RuntimeError"
              /\ Logs("compute_infeasibilities")
              /\ Logs("info:labels")
              /\ Logs("print_infeasibilities")

C2_Witness ==
    /\ condition = c_infeasible_or_unbounded
    /\ pc = "raised"
    /\ exc = "RuntimeError"
    /\ Logs("info:labels")

\* C3: when the solve returns a status other than "ok" and a termination
\* condition without "infeasible", solve_network logs a warning, raises
\* nothing and returns the network, the script exports it once, and the
\* solve has run once.
C3_NonOptimalIsExported ==
    (status # c_none /\ status # s_ok /\ ~StrContains(condition, c_infeasible)) =>
        /\ pc \in {"check", "returned", "done"}
        /\ exc = "none"
        /\ pc \in {"returned", "done"} => Logs("warning:status")
        /\ pc = "returned" => ENABLED Export
        /\ pc = "done" => n_meta /\ exported = 1
        /\ lib_calls.optimize = 1 /\ lib_calls.iterative = 0
        /\ Len(problems) = 1 /\ Latest.solved = 1

C3_Witness ==
    /\ status = s_warning
    /\ condition = c_time_limit
    /\ pc = "done"
    /\ exported = 1
    /\ Logs("warning:status")

\* C4: with a temporal_matching value outside the three known ones, every
\* coordinator invocation raises ValueError; the solver does not run on that
\* problem and nothing is exported.
C4_InvalidMatchingRaisesValueError ==
    (cfg.temporal_matching \notin ValidMatching /\ Len(problems) > 0
        /\ Latest.coord > 0) =>
        /\ exc = "ValueError"
        /\ Latest.solved = 0
        /\ exported = 0

\* C5: one coordinator invocation calls at most one of
\* h2_export_yearly_constraint and monthly_constraints, each at most once:
\* the yearly builder only under h2_yearly_matching, the monthly builder only
\* under h2_monthly_matching with is_reference false.
C5_OneMatchingBuilder ==
    \A k \in 1..Len(problems) :
        LET cs == problems[k].calls
            y  == CountCalls(cs, "h2_export_yearly_constraint")
            mo == CountCalls(cs, "monthly_constraints")
        IN  /\ y + mo <= 1
            /\ y > 0 => cfg.temporal_matching = "h2_yearly_matching"
            /\ mo > 0 => /\ cfg.temporal_matching = "h2_monthly_matching"
                         /\ ~cfg.is_reference

\* the monthly builder has run in a completed invocation
C5_Witness ==
    /\ pc = "opt_solve"
    /\ Latest.coord = 1
    /\ CountCalls(Latest.calls, "monthly_constraints") = 1
    /\ [name |-> "RESconstraints", par |-> {[additionality |-> FALSE]}] \in Latest.m.cons

\* no token selects a builder: none is BAU, SAFE or CCL, none contains RES or EQ
NoPolicyToken(opts) ==
    \A i \in 1..Len(opts) :
        /\ opts[i] \notin {t_BAU, t_SAFE, t_CCL}
        /\ ~StrContains(opts[i], t_RES)
        /\ ~StrContains(opts[i], t_EQ)

AlwaysOnNames == {"link_charger_ratio", "h2_network_cap", "co2_sequestration_limit"}
TokenBuilders == {"add_bau_constraints", "add_safe_constraints", "add_ccl_constraints",
                  "add_res_constraints", "add_eq_constraints"}

\* C6 as stated: with opts free of policy tokens, one invocation adds no
\* constraint beyond the always-on ones and no variable, for any configuration.
C6_OnlyAlwaysOn ==
    (n_opts.attached /\ NoPolicyToken(n_opts.value) /\ Len(problems) > 0
        /\ Latest.coord = 1) =>
        /\ ConsNames(Latest.m) \subseteq AlwaysOnNames
        /\ Latest.m.vars = BuiltModel(net).vars

\* C6 amended: with opts free of policy tokens, one invocation calls none of
\* the builders that opts selects; every constraint is an always-on one or
\* comes from a builder that the configuration switches on (operational
\* reserve, hydrogen export matching, hydrogen colour shares), and the only
\* variable added is the reserve variable of an activated operational reserve.
C6_NoTokenBuilder ==
    (n_opts.attached /\ NoPolicyToken(n_opts.value) /\ Len(problems) > 0
        /\ Latest.coord = 1) =>
        LET names == ConsNames(Latest.m)
        IN  /\ CalledFns(Latest.calls) \cap TokenBuilders = {}
            /\ names \subseteq AlwaysOnNames \cup
                  {"reserve_margin", "gen_updated_capacity_constraint",
                   "H2ExportConstraint-RESproduction", "RESconstraints",
                   "blue_h2_share", "pink_h2_share"}
            /\ names \cap {"reserve_margin", "gen_updated_capacity_constraint"} # {}
                  => cfg.reserve_activate
            /\ "H2ExportConstraint-RESproduction" \in names
                  => cfg.temporal_matching = "h2_yearly_matching"
            /\ "RESconstraints" \in names
                  => cfg.temporal_matching = "h2_monthly_matching" /\ ~cfg.is_reference
            /\ names \cap {"blue_h2_share", "pink_h2_share"} # {}
                  => cfg.set_color_shares
            /\ Latest.m.vars \subseteq FreshModel.vars \cup {"Generator-r"}
            /\ "Generator-r" \in Latest.m.vars => cfg.reserve_activate

\* an invocation with a non-policy token and extendable generators completed
\* with configuration-activated constraints in the problem
C6_Witness ==
    /\ pc = "opt_solve"
    /\ Latest.coord = 1
    /\ n_opts.attached
    /\ n_opts.value = <<t_Co2L>>
    /\ AnyExtendableGenerator(net)
    /\ "reserve_margin" \in ConsNames(Latest.m)

\* the reorderings of a list
Reorderings(xs) ==
    {[i \in 1..Len(xs) |-> xs[f[i]]] :
        f \in {g \in [1..Len(xs) -> 1..Len(xs)] :
                  \A a, b \in 1..Len(xs) : a # b => g[a] # g[b]}}

RunOn(opts) ==
    extra_functionality([attached |-> TRUE, value |-> opts], n_config, net, cfg,
                        n_ref, BuiltModel(net))

AtMostOne(opts, sub) ==
    Cardinality({i \in 1..Len(opts) : StrContains(opts[i], sub)}) <= 1

C8_SecondInvocationEquivalent ==
    (Len(problems) > 0 /\ Latest.coord = 2) =>
        /\ exc = "none"
        /\ Latest.m = RunOn(n_opts.value).m

\* C9: on the iterative path the limits handed to the sequential solve are
\* the configured integers min_iterations and max_iterations (4 and 6 when
\* absent).
C9_IntegerIterationLimits ==
    lib_calls.iterative > 0 =>
        /\ kwargs.min_iterations = PyInt(Get(cf_solving, "min_iterations", 4))
        /\ kwargs.max_iterations = PyInt(Get(cf_solving, "max_iterations", 6))

\* C10: the callback is among the arguments of both solve calls; a problem
\* is built per solver run, the solver runs at most once on it and only
\* after exactly one coordinator invocation on that problem.
C10_CallbackBeforeEverySolve ==
    /\ lib_calls.optimize + lib_calls.iterative > 0 => kwargs.callback
    /\ \A k \in 1..Len(problems) :
          /\ problems[k].coord <= 1
          /\ problems[k].solved <= 1
          /\ problems[k].solved = 1 => problems[k].coord = 1
    /\ pc = "opt_solve" => Latest.coord = 1 /\ Latest.solved = 0

\* the solver has run on the single-solve path
C10_Witness ==
    /\ frame = "single"
    /\ pc = "check"
    /\ Len(problems) = 1
    /\ Latest.solved = 1
    /\ Latest.coord = 1

(* ------------------------------------------------------------------ *)
(* Properties of the builders                                          *)
(* ------------------------------------------------------------------ *)
\* one coordinator invocation on the problem has completed without error
Completed == pc = "opt_solve" /\ Latest.coord = 1 /\ exc = "none"

\* the constraint of that name in the latest problem
Con(name) == CHOOSE c \in Latest.m.cons : c.name = name

\* C11: on a network with CHP pairs, the problem a completed coordinator
\* invocation leaves holds the CHP linkage constraints: the capacity ratio
\* and the top-iso-fuel-line ceiling for extendable pairs, the ceiling for
\* fixed pairs, the backpressure inequality for all pairs.
C11_ChpConstraintsPresent ==
    (Completed /\ net.chp # {}) =>
        /\ ConsNames(add_chp_constraints(Ctx0(BuiltModel(net)), net).m)
              \subseteq ConsNames(Latest.m)
        /\ "chplink-backpressure" \in ConsNames(Latest.m)
        /\ "ext" \in net.chp =>
              {"chplink-fix_p_nom_ratio", "chplink-top_iso_fuel_line_ext"}
                  \subseteq ConsNames(Latest.m)
        /\ "fix" \in net.chp =>
              "chplink-top_iso_fuel_line_fix" \in ConsNames(Latest.m)

\* one coordinator invocation on the problem is over, with or without error
Invoked == pc \in {"opt_solve", "raised"} /\ Latest.coord = 1

\* opts is the single token t
OnlyToken(t) == n_opts.attached /\ n_opts.value = <<t>>

\* none of the hydrogen and CO2 statements of the coordinator can raise
Quiet ==
    /\ cfg.temporal_matching = "no_res_matching"
    /\ net.h2_pipelines = "none"
    /\ ~net.has_co2_store

\* C12: with BAU in opts and an extendable generator the coordinator raises
\* no error, and bau_mincaps bounds, for every extendable carrier that is a
\* key of BAU_mincapacities, the sum of its extendable capacity variables from
\* below by the configured minimum; a carrier absent from the map gets no row.
C12_BauFloorPerListedCarrier ==
    (Invoked /\ Quiet /\ OnlyToken(t_BAU) /\ AnyExtendableGenerator(net)) =>
        /\ exc = "none"
        /\ "bau_mincaps" \in ConsNames(Latest.m)
        /\ Con("bau_mincaps").par =
              {[carrier |-> c,
                gens |-> Ids({g \in ExtGenerators(net) : g.carrier = c}),
                min |-> cfg.BAU_mincapacities[c]] :
                  c \in ExtCarriers(net) \cap DOMAIN cfg.BAU_mincapacities}

\* the total demand of snapshot t
TotalDemand(t) == net.p_set[t]["b1"] + net.p_set[t]["b2"] + net.p_set[t]["b3"]

\* p is the peak over the snapshots of the total demand
IsPeak(p) ==
    /\ \E t \in 1..Len(net.p_set) : TotalDemand(t) = p
    /\ \A t \in 1..Len(net.p_set) : TotalDemand(t) <= p

\* the summed p_nom of the generators of the set
Capacity(gens) == SumSet(gens, [g \in gens |-> g.p_nom])

\* C13: with SAFE in opts and an extendable generator, safe_mintotalcap bounds
\* the sum of the capacity variables of the extendable conventional generators
\* from below by peak demand x (1 + SAFE_reservemargin) minus the p_nom of the
\* non-extendable conventional generators (bound in thousandths of a MW, the
\* margin in thousandths); with peak 1000 MW, margin 0.1 and no existing
\* conventional capacity the bound is 1100 MW.
C13_SafeReserveBound ==
    (Invoked /\ Quiet /\ OnlyToken(t_SAFE) /\ AnyExtendableGenerator(net)) =>
        LET conv  == {g \in net.generators : g.carrier \in cfg.conventional_carriers}
            exist == {g \in conv : ~g.ext}
        IN  /\ exc = "none"
            /\ "safe_mintotalcap" \in ConsNames(Latest.m)
            /\ \E row \in Con("safe_mintotalcap").par :
                  /\ Con("safe_mintotalcap").par = {row}
                  /\ row.gens = {g.id : g \in {h \in conv : h.ext}}
                  /\ \E p \in 0..2000 :
                        /\ IsPeak(p)
                        /\ row.rhs = p * (1000 + cfg.SAFE_reservemargin)
                                        - 1000 * Capacity(exist)
                        /\ (p = 1000 /\ cfg.SAFE_reservemargin = 100 /\ exist = {})
                              => row.rhs = 1100 * 1000

\* the scenario of the claim: peak 1000 MW that no single snapshot of a
\* single load reaches, margin 0.1, an extendable gas generator and no
\* existing conventional capacity
C13_Witness ==
    /\ Completed
    /\ OnlyToken(t_SAFE)
    /\ net.p_set = D1
    /\ cfg.SAFE_reservemargin = 100
    /\ net.generators = {G1, G2}
    /\ Con("safe_mintotalcap").par = {[gens |-> {"g1"}, rhs |-> 1100000]}

\* C14: with CCL active and a limits file that cannot be read, the builder
\* logs the failure and the I/O error leaves the coordinator: the invocation
\* ends with that error, no CCL constraint is added and the solver does not
\* run on the problem.
C14_UnreadableLimitsReraised ==
    (Invoked /\ OnlyToken(t_CCL) /\ AnyExtendableGenerator(net)
        /\ ~net.agg_p_nom_minmax.readable) =>
        /\ ListContains(RunOn(n_opts.value).log, "exception:ccl_file")
        /\ pc = "raised"
        /\ exc = "IOError"
        /\ ConsNames(Latest.m) \cap {"agg_p_nom_min", "agg_p_nom_max"} = {}
        /\ Latest.solved = 0

\* the (country, carrier) pairs that have extendable generators
ExtPairs == {<<Country(g.bus), g.carrier>> : g \in ExtGenerators(net)}

\* the constraint named name bounds the pair by the table's column col exactly
\* when the table holds a value there, over the pair's extendable generators
BoundsFromTable(name, col) ==
    \A pair \in ExtPairs :
        LET entries == {r \in net.agg_p_nom_minmax.rows :
                           /\ r.country = pair[1] /\ r.carrier = pair[2]
                           /\ ~r[col].nan}
            rows    == {x \in Con(name).par :
                           x.country = pair[1] /\ x.carrier = pair[2]}
        IN  /\ (rows # {}) <=> (entries # {})
            /\ \A x \in rows :
                  /\ x.gens = {g.id : g \in {h \in ExtGenerators(net) :
                                   Country(h.bus) = pair[1] /\ h.carrier = pair[2]}}
                  /\ \E r \in entries : x.bound = r[col].v

\* C15: with CCL active and a readable table, for each (country, carrier) pair
\* with extendable generators a minimum (maximum) constraint row on the pair's
\* summed extendable capacity exists exactly when the table holds a
\* non-missing min (max) for the pair; no error is raised for the others.
C15_LimitsWhereTableHasEntry ==
    (Invoked /\ Quiet /\ OnlyToken(t_CCL) /\ AnyExtendableGenerator(net)
        /\ net.agg_p_nom_minmax.readable) =>
        /\ exc = "none"
        /\ {"agg_p_nom_min", "agg_p_nom_max"} \subseteq ConsNames(Latest.m)
        /\ BoundsFromTable("agg_p_nom_min", "min")
        /\ BoundsFromTable("agg_p_nom_max", "max")

\* a table with a pair bounded on both sides, a pair whose row holds no value
\* and a pair with a minimum only
C15_Witness ==
    /\ Completed
    /\ OnlyToken(t_CCL)
    /\ net.agg_p_nom_minmax = Limits2
    /\ net.generators = {G1, G2, G3}
    /\ Con("agg_p_nom_min").par =
          {[country |-> "A", carrier |-> "gas", gens |-> {"g1"}, bound |-> 100],
           [country |-> "B", carrier |-> "gas", gens |-> {"g3"}, bound |-> 50]}
    /\ Con("agg_p_nom_max").par =
          {[country |-> "A", carrier |-> "gas", gens |-> {"g1"}, bound |-> 1000]}

\* C16: for every battery bus, link_charger_ratio ties the charger capacity to
\* the discharger capacity of that bus by the discharger efficiency of that
\* same bus (coefficients in percent): charger - efficiency x discharger = 0.
C16_OwnDischargerEfficiency ==
    (Invoked /\ "link_charger_ratio" \in ConsNames(Latest.m)) =>
        \A i \in 1..Len(net.batteries) :
            \E row \in Con("link_charger_ratio").par :
                /\ row.bus = i
                /\ row.charger = 100
                /\ row.discharger = 0 - net.batteries[i]

\* the builder called last in the latest invocation
LastCall == IF Latest.calls = <<>> THEN "none" ELSE Latest.calls[Len(Latest.calls)].fn

\* C17: with the hydrogen network and a network_limit configured, when the
\* network has no H2 pipeline link or the problem has no extendable link
\* capacity variable, add_h2_network_cap returns without raising and adds no
\* h2_network_cap constraint.
C17_NoPipelineNoCap ==
    (Invoked /\ "add_h2_network_cap" \in CalledFns(Latest.calls)
        /\ (net.h2_pipelines = "none" \/ "Link-p_nom" \notin BuiltModel(net).vars)) =>
        /\ ~(exc # "none" /\ LastCall = "add_h2_network_cap")
        /\ "h2_network_cap" \notin ConsNames(Latest.m)

\* the network holds none of the components the sector builders select
NoSectorComponents ==
    /\ net.batteries = <<>>
    /\ net.chp = {}
    /\ ~net.has_h2_export_load
    /\ net.h2_pipelines = "none"
    /\ ~net.has_co2_store

\* C18: on a network with zero components matching their selections, the
\* builders the coordinator activates (battery ratio, export matching,
\* hydrogen network cap, colour shares, CO2 sequestration limit) skip
\* silently: no error is raised and no constraint is added.
C18_EmptySelectionsSkip ==
    (Invoked /\ n_opts.value = <<>> /\ NoSectorComponents) =>
        /\ exc = "none"
        /\ ConsNames(Latest.m) = {}

\* the buses of a group: the bus itself, or the buses of the country
GroupBuses(grp) == {b \in Buses : b = grp \/ Country(b) = grp}

\* the weighted annual load of the buses of the set
AnnualLoad(bs) ==
    net.snapshot_weightings.generators
        * SumSet(bs, [b \in bs |-> SumSeq([t \in 1..Len(net.p_set) |-> net.p_set[t][b]])])

\* the weighted inflow into the storage units at the buses of the set
AnnualInflow(bs) ==
    net.snapshot_weightings.stores
        * SumSet(bs \cap DOMAIN net.inflow,
                 [b \in bs \cap DOMAIN net.inflow |-> SumSeq(net.inflow[b])])

\* weighted generation and spillage totals around the bound of a row
Dispatches(row) ==
    {x \in {0, row.load - row.inflow - 1, row.load - row.inflow,
            row.load - row.inflow + 1, row.load, row.load + row.inflow,
            row.inflow, 7 * row.load} : x >= 0}

\* C19: for an EQ token, equity_min has one row per group (node, or country
\* when the token ends in "c") that reads: weighted generation minus weighted
\* spillage >= level x weighted annual load - weighted inflow. At level 0 every
\* dispatch with non-negative generation and spillage not above the inflow
\* satisfies it; at level 1 it holds exactly when generation minus spillage
\* plus inflow covers the whole annual load of the group.
C19_EquityRow ==
    (Invoked /\ Quiet /\ n_opts.attached /\ Len(n_opts.value) = 1
        /\ StrContains(n_opts.value[1], t_EQ)) =>
        LET o == n_opts.value[1]
            groups == IF o[Len(o)] = "c" THEN {Country(b) : b \in Buses} ELSE Buses
            level == IF o = t_EQ0 THEN <<0, 0>>
                     ELSE IF o = t_EQ1 THEN <<1, 0>> ELSE <<7, 1>>
        IN  /\ exc = "none"
            /\ "equity_min" \in ConsNames(Latest.m)
            /\ {row.group : row \in Con("equity_min").par} = groups
            /\ \A row \in Con("equity_min").par :
                  /\ row.level = level
                  /\ row.load = AnnualLoad(GroupBuses(row.group))
                  /\ row.inflow = AnnualInflow(GroupBuses(row.group))
                  /\ row.gens = {g.id : g \in {h \in net.generators :
                                                  h.bus \in GroupBuses(row.group)}}
                  /\ \A gen \in Dispatches(row), spill \in Dispatches(row) :
                        /\ (o = t_EQ0 /\ spill <= row.inflow)
                              => EquityHolds(row, gen, spill)
                        /\ o = t_EQ1
                              => (EquityHolds(row, gen, spill)
                                     <=> gen - spill + row.inflow >= row.load)
                        /\ o = t_EQ07c
                              => (EquityHolds(row, gen, spill)
                                     <=> 10 * (gen - spill + row.inflow) >= 7 * row.load)

\* level 0 on a network with storage inflow and three-hourly snapshots: the
\* row of the node that holds the storage unit
C19_Witness ==
    /\ Completed
    /\ OnlyToken(t_EQ0)
    /\ net.inflow = Inflow1
    /\ net.snapshot_weightings = W3
    /\ net.p_set = D1
    /\ \E row \in Con("equity_min").par :
          /\ row.group = "b1"
          /\ row.level = <<0, 0>>
          /\ row.load = 3000
          /\ row.inflow = 240
          /\ row.spill = {"b1"}

\* C20: for every token RES<share> of opts the coordinator adds one equality
\* constraint res_share: weighted renewable generation plus storage dispatch
\* minus storage charging plus efficiency-weighted discharger minus charger
\* flows = share x weighted annual load, share being the trailing number of
\* the token.
C20_ResShareConstraint ==
    (Invoked /\ Quiet /\ n_opts.attached /\ Len(n_opts.value) = 1
        /\ StrContains(n_opts.value[1], t_RES)) =>
        /\ exc = "none"
        /\ [fn |-> "add_res_constraints", par |-> <<5, 1>>] \in CallSet(Latest.calls)
        /\ "res_share" \in ConsNames(Latest.m)

(* ------------------------------------------------------------------ *)
(* Properties of the reserve builders and of the script's attributes   *)
(* ------------------------------------------------------------------ *)
\* the series value of generator g at snapshot t, 1.0 without a series
Availability(g, t) ==
    IF g.id \in DOMAIN net.p_max_pu THEN net.p_max_pu[g.id][t] ELSE 100

\* C21: with operational_reserve.activate set, the problem a completed
\* coordinator invocation leaves bounds the reserve of every generator from
\* below by 0 and holds, for every generator g and snapshot t, the row
\* dispatch(g,t) + reserve(g,t) <= p_max_pu(g,t) x capacity(g): against the
\* capacity variable of g when g is extendable, against p_max_pu x p_nom when
\* g is fixed, in networks that mix both kinds as well.
C21_DispatchPlusReserveWithinCapacity ==
    (Completed /\ cfg.reserve_activate) =>
        /\ [name |-> "Generator-r", gens |-> Ids(net.generators), lower |-> 0]
              \in Latest.m.lower
        /\ "gen_updated_capacity_constraint" \in ConsNames(Latest.m)
        /\ \A g \in net.generators : \A t \in 1..Len(net.p_set) :
              \E row \in Con("gen_updated_capacity_constraint").par :
                 /\ row.gen = g.id /\ row.t = t
                 /\ row.dispatch = 100 /\ row.reserve = 100
                 /\ IF g.ext
                    THEN /\ row.capacity = [var |-> g.id,
                                            coeff |-> 0 - Availability(g, t)]
                         /\ row.rhs = 0
                    ELSE /\ row.capacity = NoTerm
                         /\ row.rhs = Availability(g, t) * g.p_nom

\* a network with two extendable generators and two fixed ones, one of each
\* kind with an availability series below 1
C21_Witness ==
    /\ Completed /\ cfg.reserve_activate
    /\ net.generators = {G1, G2, G4, G5}
    /\ net.p_max_pu = Avail2
    /\ \E row \in Con("gen_updated_capacity_constraint").par :
          row.gen = "g5" /\ row.t = 2 /\ row.rhs = 6000
    /\ \E row \in Con("gen_updated_capacity_constraint").par :
          row.gen = "g2" /\ row.t = 2 /\ row.capacity = [var |-> "g2", coeff |-> -30]

(* ------------------------------------------------------------------ *)
(* prepare_network                                                     *)
(* ------------------------------------------------------------------ *)
\* The network prepare_network works on: tables are sequences of rows in
\* the order of their index, time series are functions from a column name to
\* a sequence over the snapshots. p_max_pu, p_min_pu and the clip threshold
\* are in hundredths, costs in 1e-5 currency units, sign in thousandths.
MaxSnapshots == 3

\* the default p_nom_max of a generator: no limit
Inf == 2000000000

\* a flag that is absent from the options taken as set
OptionOnByDefault(solve_opts, k) ==
    IF k \in DOMAIN solve_opts THEN Truthy(solve_opts[k]) ELSE k # "nhours"
\* solve_opts.get(k) as a condition: the key is there and its value is truthy
OptionOn(solve_opts, k) == k \in DOMAIN solve_opts /\ Truthy(solve_opts[k])

\* the comparison written >= : a value equal to the threshold kept
ClipKeepingThreshold(v, T) == IF v >= T THEN v ELSE 0
\* df.where(df > T, other=0.0), cell by cell
Clip(v, T) == IF v > T THEN v ELSE 0

ClipFrame(df, T) ==
    [c \in DOMAIN df |-> [t \in DOMAIN df[c] |-> Clip(df[c][t], T)]]

\* lines 104-110
ClipTimeSeries(n, T) ==
    [n EXCEPT !.generators_t = [p_max_pu |-> ClipFrame(@.p_max_pu, T),
                                p_min_pu |-> ClipFrame(@.p_min_pu, T)],
              !.storage_units_t_inflow = ClipFrame(@, T)]

\* lines 112-114: the line volume limit and its dual become attributes of n
LineVolumeLimit(n) ==
    IF n.lv_limit.present
    THEN [n EXCEPT !.line_volume_limit =
             [set |-> TRUE, constant |-> n.lv_limit.constant, mu |-> n.lv_limit.mu]]
    ELSE n

\* the row with the sign left at its default 1.0
LoadSheddingGeneratorUnscaled(b) ==
    [id |-> b.name \o " load", bus |-> b.name, carrier |-> "load",
     build_year |-> 0, ext |-> FALSE, sign |-> 1000, marginal_cost |-> 10000000,
     p_nom |-> 1000000000, p_nom_max |-> Inf]
\* the row n.madd("Generator", ...) adds for the bus b; attributes that are
\* not given take the defaults of a generator
LoadSheddingGenerator(b) ==
    [id |-> b.name \o " load", bus |-> b.name, carrier |-> "load",
     build_year |-> 0, ext |-> FALSE, sign |-> 1, marginal_cost |-> 10000000,
     p_nom |-> 1000000000, p_nom_max |-> Inf]

\* lines 116-130: the carrier "Load" and one generator per bus, appended in
\* the order of n.buses.index
AddLoadShedding(n) ==
    [n EXCEPT !.carriers = @ \cup {"Load"},
              !.generators = @ \o [i \in 1..Len(n.buses) |->
                                      LoadSheddingGenerator(n.buses[i])]]

\* numpy's generator, as far as the code depends on it: seeding fixes the
\* state, every draw is a function of the state and moves it on
RngModulus == 101
Seed(s) == s % RngModulus
Advance(state) == (state * 37 + 11) % RngModulus
\* one draw of np.random.random, in tenths
Uniform(state) == Advance(state) % 10

RECURSIVE AdvanceBy(_, _)
AdvanceBy(state, k) == IF k = 0 THEN state ELSE AdvanceBy(Advance(state), k - 1)

\* np.random.random(len): the k draws that follow the state
RandomVector(state, k) == [i \in 1..k |-> Uniform(AdvanceBy(state, i - 1))]

\* the draw made without seeding first
NoReseed(state, seed) == state
\* np.random.seed(seed) before the draw
Reseed(state, seed) == Seed(seed)

\* lines 136-140: marginal_cost += 1e-2 + 2e-3 * (random - 0.5), in 1e-5
NoisyMarginalCost(df, state) ==
    LET u == RandomVector(state, Len(df))
    IN  [i \in 1..Len(df) |->
            [df[i] EXCEPT !.marginal_cost = @ + 1000 + 20 * u[i] - 100]]

\* lines 143-146: capital_cost += (1e-1 + 2e-2 * (random - 0.5)) * length
NoisyCapitalCost(df, state) ==
    LET u == RandomVector(state, Len(df))
    IN  [i \in 1..Len(df) |->
            [df[i] EXCEPT !.capital_cost =
                @ + (10000 + 200 * u[i] - 1000) * df[i].length]]

\* lines 132-146. n.iterate_components() visits the components that have
\* rows: generators and links carry marginal_cost, lines do not; the second
\* loop visits lines and links. rng is the generator's state on entry.
NoisyCosts(n, rng) ==
    LET s1 == IF Len(n.generators) > 0 THEN Reseed(rng, 174) ELSE rng
        gens == NoisyMarginalCost(n.generators, s1)
        s2 == AdvanceBy(s1, Len(n.generators))
        s3 == IF Len(n.links) > 0 THEN Reseed(s2, 174) ELSE s2
        links1 == NoisyMarginalCost(n.links, s3)
        s4 == AdvanceBy(s3, Len(n.links))
        s5 == IF Len(n.lines) > 0 THEN Reseed(s4, 123) ELSE s4
        lines == NoisyCapitalCost(n.lines, s5)
        s6 == AdvanceBy(s5, Len(n.lines))
        s7 == IF Len(n.links) > 0 THEN Reseed(s6, 123) ELSE s6
        links2 == NoisyCapitalCost(links1, s7)
        s8 == AdvanceBy(s7, Len(n.links))
    IN  [n |-> [n EXCEPT !.generators = gens, !.links = links2, !.lines = lines],
         rng |-> s8]

RECURSIVE Gcd(_, _)
Gcd(a, b) == IF b = 0 THEN a ELSE Gcd(b, a % b)
\* the quotient a / b as an exact fraction in lowest terms
Ratio(a, b) == [num |-> a \div Gcd(a, b), den |-> b \div Gcd(a, b)]

Min(a, b) == IF a <= b THEN a ELSE b
Max(a, b) == IF a >= b THEN a ELSE b

\* n.snapshots[:nhours]
FirstSnapshots(snapshots, nhours) ==
    SubSeq(snapshots, 1, Min(nhours, Len(snapshots)))

TruncateFrame(df, k) == [c \in DOMAIN df |-> SubSeq(df[c], 1, k)]

\* lines 148-151: n.set_snapshots reindexes every time series to the kept
\* snapshots; then every weighting is set to 8760.0 / nhours
SetHours(n, nhours) ==
    LET kept == FirstSnapshots(n.snapshots, nhours)
        k == Len(kept)
    IN  [n EXCEPT !.snapshots = kept,
                  !.generators_t = [p_max_pu |-> TruncateFrame(@.p_max_pu, k),
                                    p_min_pu |-> TruncateFrame(@.p_min_pu, k)],
                  !.storage_units_t_inflow = TruncateFrame(@, k),
                  !.snapshot_weightings = [i \in 1..k |-> Ratio(8760, nhours)]]

\* n.buses.location[b]
BusLocation(n, b) ==
    n.buses[CHOOSE i \in 1..Len(n.buses) : n.buses[i].name = b].location

\* the values of n.buses.location
BusLocations(n) == {n.buses[i].location : i \in 1..Len(n.buses)}

GeneratorIds(n) == {n.generators[i].id : i \in 1..Len(n.generators)}

\* the carriers with a siting potential, in the order of the loop
LandUseCarriers == <<"solar", "onwind", "offwind-ac", "offwind-dc">>

\* str(y) for the years of the configuration
YearStr(y) ==
    CASE y = 2020 -> "2020" [] y = 2030 -> "2030" [] y = 2040 -> "2040"
      [] y = 2050 -> "2050"
\* int(s)
YearInt(s) == CHOOSE y \in {2020, 2030, 2040, 2050} : YearStr(y) = s

\* p_nom_max - x, where an unlimited p_nom_max stays unlimited
Minus(a, x) == IF a = Inf THEN Inf ELSE a - x

\* the bound left as it is after the subtraction
NoClipLower(v) == v
\* Series.clip(lower=0)
ClipLower(v) == Max(0, v)

\* lines 537-549. existing: per carrier, the p_nom of all generators of the
\* carrier summed by the location of their bus; the sums are subtracted from
\* p_nom_max of the generators named "<location> <carrier>-<horizon>", and a
\* name that is no generator is a KeyError.
_add_land_use_constraint(n, config) ==
    LET G == 1..Len(n.generators)
        horizon == config.planning_horizons
        of(c) == {i \in G : n.generators[i].carrier = LandUseCarriers[c]}
        locs(c) == {BusLocation(n, n.generators[i].bus) : i \in of(c)}
        existing(c, l) ==
            LET rows == {i \in of(c) : BusLocation(n, n.generators[i].bus) = l}
            IN  SumSet(rows, [i \in rows |-> n.generators[i].p_nom])
        target(c, l) == l \o " " \o LandUseCarriers[c] \o "-" \o horizon
        pairs == {<<c, l>> : c \in DOMAIN LandUseCarriers, l \in BusLocations(n)}
        used == {p \in pairs : p[2] \in locs(p[1])}
        reduced == [i \in G |->
            LET hits == {p \in used : target(p[1], p[2]) = n.generators[i].id}
            IN  [n.generators[i] EXCEPT !.p_nom_max =
                    ClipLower(Minus(@, SumSet(hits, [p \in hits |->
                                                        existing(p[1], p[2])])))]]
    IN  IF \A p \in used : target(p[1], p[2]) \in GeneratorIds(n)
        THEN [n |-> [n EXCEPT !.generators = reduced], exc |-> "none"]
        ELSE [n |-> n, exc |-> "KeyError"]

\* i.split(" ")[0] + " " + i.split(" ")[1] for a generator named
\* "<word> <word> <carrier>-<year>": its first two words
FirstTwoWords(n, i) ==
    CHOOSE l \in BusLocations(n) :
        \E c \in DOMAIN LandUseCarriers, y \in {2020, 2030, 2040, 2050} :
            i = l \o " " \o LandUseCarriers[c] \o "-" \o YearStr(y)

\* lines 552-586. For every earlier year of planning_horizons +
\* grouping_years and every location with a generator of the carrier built in
\* that year, the p_nom of that generator is subtracted from p_nom_max of the
\* generator of the current horizon at the location.
_add_land_use_constraint_m(n, config) ==
    LET G == 1..Len(n.generators)
        current_horizon == config.planning_horizons
        years == config.scenario_planning_horizons \o config.grouping_years
        previous_years == {YearStr(years[k]) : k \in
                              {j \in DOMAIN years : years[j] < YearInt(current_horizon)}}
        of(c) == {i \in G : n.generators[i].carrier = LandUseCarriers[c]}
        ind(c) == {FirstTwoWords(n, n.generators[i].id) : i \in of(c)}
        name(l, c, y) == l \o " " \o LandUseCarriers[c] \o "-" \o y
        existing_ids(c) == {n.generators[i].id : i \in of(c)}
        p_nom_of(id) == (CHOOSE i \in G : n.generators[i].id = id)
        triples == {<<c, l, y>> : c \in DOMAIN LandUseCarriers,
                                  l \in BusLocations(n), y \in previous_years}
        used == {x \in triples : /\ x[2] \in ind(x[1])
                                 /\ name(x[2], x[1], x[3]) \in existing_ids(x[1])}
        reduced == [i \in G |->
            LET hits == {x \in used :
                            name(x[2], x[1], current_horizon) = n.generators[i].id}
            IN  [n.generators[i] EXCEPT !.p_nom_max =
                    ClipLower(Minus(@, SumSet(hits, [x \in hits |->
                        n.generators[p_nom_of(name(x[2], x[1], x[3]))].p_nom])))]]
    IN  IF \A x \in used : name(x[2], x[1], current_horizon) \in GeneratorIds(n)
        THEN [n |-> [n EXCEPT !.generators = reduced], exc |-> "none"]
        ELSE [n |-> n, exc |-> "KeyError"]

\* lines 530-534: "m" in snakemake.wildcards.clusters
add_land_use_constraint(n, config) ==
    IF config.clusters_m THEN _add_land_use_constraint_m(n, config)
    ELSE _add_land_use_constraint(n, config)

\* prepare_network(n, solve_opts) with numpy's generator in the state rng
prepare_network(n, solve_opts, config, rng) ==
    LET n1 == The({IF "clip_p_max_pu" \in DOMAIN solve_opts
                   THEN ClipTimeSeries(x, solve_opts["clip_p_max_pu"]) ELSE x :
                      x \in {n}})
        n2 == The({LineVolumeLimit(x) : x \in {n1}})
        n3 == The({IF OptionOn(solve_opts, "load_shedding")
                   THEN AddLoadShedding(x) ELSE x : x \in {n2}})
        r4 == The({IF OptionOn(solve_opts, "noisy_costs")
                   THEN NoisyCosts(x, rng) ELSE [n |-> x, rng |-> rng] :
                      x \in {n3}})
        n5 == The({IF OptionOn(solve_opts, "nhours")
                   THEN SetHours(x.n, solve_opts["nhours"]) ELSE x.n :
                      x \in {r4}})
        r6 == The({IF config.foresight = "myopic"
                   THEN add_land_use_constraint(x, config)
                   ELSE [n |-> x, exc |-> "none"] : x \in {n5}})
    IN  [n |-> r6.n, rng |-> r4.rng, exc |-> r6.exc]

\* line 1057: n = prepare_network(n, solving["options"])
PrepareNetwork ==
    /\ pc = "prepare_network"
    /\ LET r == prepare_network(net, cf_solving, cfg, np_random)
       IN  /\ net' = r.n
           /\ np_random' = r.rng
           /\ exc' = r.exc
           /\ pc' = IF r.exc = "none" THEN "prepared" ELSE "raised"
    /\ UNCHANGED <<cfg, cf_solving, n_opts, n_ref, n_config, frame, kwargs,
                   skip_iterations, status, condition, log, problems,
                   lib_calls, n_meta, exported>>

(* ------------------------------------------------------------------ *)
(* Inputs of prepare_network                                           *)
(* ------------------------------------------------------------------ *)
\* n.buses: two buses with a location of their own, and a low-voltage bus
\* at the location of the first
Bus1 == [name |-> "DE0 0", location |-> "DE0 0"]
Bus2 == [name |-> "DE0 1", location |-> "DE0 1"]
Bus3 == [name |-> "DE0 0 low voltage", location |-> "DE0 0"]
BusTables == {<<Bus1>>, <<Bus1, Bus2>>, <<Bus1, Bus2, Bus3>>}

\* a generator named "<location> <carrier>-<year>"; one built in the year h
\* of the current horizon is new (p_nom 0, extendable up to p_nom_max)
Gen(loc, bus, carrier, year, h, p_nom, p_nom_max, mc) ==
    [id |-> loc \o " " \o carrier \o "-" \o YearStr(year), bus |-> bus,
     carrier |-> carrier, build_year |-> year, ext |-> (year = h),
     sign |-> 1000, marginal_cost |-> mc,
     p_nom |-> IF year = h THEN 0 ELSE p_nom,
     p_nom_max |-> IF year = h THEN p_nom_max ELSE p_nom]

\* n.generators for the horizon h: the generators of the horizon and the
\* ones built in the years before it
GeneratorTable(h, buses) ==
    LET b1 == <<Gen("DE0 0", "DE0 0", "solar", h, h, 0, 500, 1000),
                Gen("DE0 0", "DE0 0", "OCGT", h, h, 0, Inf, 5000000),
                Gen("DE0 0", "DE0 0", "solar", 2020, h, 200, 0, 1000)>>
              \o (IF h > 2030
                  THEN <<Gen("DE0 0", "DE0 0", "solar", 2030, h, 400, 0, 1000)>>
                  ELSE <<>>)
        b2 == IF Len(buses) >= 2
              THEN <<Gen("DE0 1", "DE0 1", "onwind", h, h, 0, 300, 1500),
                     Gen("DE0 1", "DE0 1", "solar", h, h, 0, 250, 1000)>>
              ELSE <<>>
        b3 == IF Len(buses) >= 3
              THEN <<Gen("DE0 0", "DE0 0 low voltage", "onwind", 2020, h, 100, 0, 1500),
                     Gen("DE0 0", "DE0 0", "onwind", h, h, 0, 150, 1500)>>
              ELSE <<>>
    IN  b1 \o b2 \o b3

\* time series over k snapshots, in hundredths
Profile(k, values) == [t \in 1..k |-> values[((t - 1) % Len(values)) + 1]]
PMaxPu(h, k, buses) ==
    [c \in {"DE0 0 solar-" \o YearStr(h)} \cup
           (IF Len(buses) >= 2 THEN {"DE0 1 onwind-" \o YearStr(h)} ELSE {}) |->
        IF c = "DE0 0 solar-" \o YearStr(h)
        THEN Profile(k, <<50, 30, 0, 100>>) ELSE Profile(k, <<29, 31, 30>>)]
PMinPu(h, k) ==
    [c \in {"DE0 0 OCGT-" \o YearStr(h)} |-> Profile(k, <<30, -20, 40>>)]
Inflow(k) == [c \in {"DE0 0 hydro"} |-> Profile(k, <<1200, 30, 0>>)]

LineTables == {<<>>, <<[id |-> "1", length |-> 100, capital_cost |-> 4000000]>>}
LinkTables ==
    {<<>>, <<[id |-> "DE0 0-DE0 1 DC", length |-> 50, marginal_cost |-> 0,
              capital_cost |-> 9000000],
             [id |-> "DE0 0 H2 Electrolysis", length |-> 0, marginal_cost |-> 0,
              capital_cost |-> 7000000]>>}

\* networks of the horizon h
PrepareNetworks(h) ==
    {[buses |-> b,
      carriers |-> {"solar", "onwind", "OCGT"},
      generators |-> GeneratorTable(h, b),
      generators_t |-> [p_max_pu |-> PMaxPu(h, k, b), p_min_pu |-> PMinPu(h, k)],
      storage_units_t_inflow |-> Inflow(k),
      lines |-> l,
      links |-> IF l = <<>> THEN <<>> ELSE CHOOSE x \in LinkTables : x # <<>>,
      snapshots |-> [t \in 1..k |-> t],
      snapshot_weightings |-> [t \in 1..k |-> Ratio(w, 1)],
      lv_limit |-> [present |-> l # <<>>, constant |-> 125, mu |-> 0],
      line_volume_limit |-> [set |-> FALSE, constant |-> 0, mu |-> 0]] :
        b \in BusTables, l \in LineTables, k \in 1..MaxSnapshots, w \in {1, 3}}

\* solving["options"], as far as prepare_network reads it
PrepareOptions ==
    {[k \in (IF c = {} THEN {} ELSE {"clip_p_max_pu"})
            \cup (IF ls = {} THEN {} ELSE {"load_shedding"})
            \cup (IF nc = {} THEN {} ELSE {"noisy_costs"})
            \cup (IF nh = {} THEN {} ELSE {"nhours"}) |->
        CASE k = "clip_p_max_pu" -> CHOOSE v \in c : TRUE
          [] k = "load_shedding" -> CHOOSE v \in ls : TRUE
          [] k = "noisy_costs" -> CHOOSE v \in nc : TRUE
          [] k = "nhours" -> CHOOSE v \in nh : TRUE] :
     c \in {{}, {30}}, ls \in {{}, {0}, {1}}, nc \in {{}, {0}, {1}},
     nh \in {{}} \cup {{v} : v \in 1..(MaxSnapshots + 1)}}

\* snakemake.config and wildcards, as far as prepare_network reads them
PrepareConfigs ==
    {c \in [foresight : {"overnight", "myopic"},
            clusters_m : BOOLEAN,
            planning_horizons : {"2030", "2040"},
            scenario_planning_horizons : {<<2030, 2040>>},
            grouping_years : {<<2020>>}] :
        c.foresight = "overnight" => ~c.clusters_m /\ c.planning_horizons = "2030"}

\* the states numpy's generator may be in when prepare_network is called
RngStates == {0, 17, 58}

\* The state in which the script calls prepare_network (line 1057)
InitPrepare ==
    /\ cfg \in PrepareConfigs
    /\ net \in PrepareNetworks(YearInt(cfg.planning_horizons))
    /\ cf_solving \in PrepareOptions
    /\ np_random \in RngStates
    /\ n_opts = [attached |-> FALSE, value |-> <<>>]
    /\ n_config = FALSE
    /\ n_ref = "None"
    /\ pc = "prepare_network"
    /\ frame = "none"
    /\ kwargs = [callback |-> FALSE, track_iterations |-> Unset,
                 min_iterations |-> Unset, max_iterations |-> Unset]
    /\ skip_iterations = 0
    /\ status = c_none
    /\ condition = c_none
    /\ exc = "none"
    /\ log = <<>>
    /\ problems = <<>>
    /\ lib_calls = [optimize |-> 0, iterative |-> 0]
    /\ n_meta = FALSE
    /\ exported = 0

NextPrepare == PrepareNetwork

SpecPrepare == InitPrepare /\ [][NextPrepare]_vars

(* ------------------------------------------------------------------ *)
(* Properties of prepare_network                                       *)
(* ------------------------------------------------------------------ *)
\* a step in which prepare_network returns
PrepareStep == pc = "prepare_network" /\ pc' = "prepared"

\* the three time series the clipping covers
ClippedFrames(n) ==
    <<n.generators_t.p_max_pu, n.generators_t.p_min_pu, n.storage_units_t_inflow>>

\* C22: with clip_p_max_pu = T configured, every entry of generator p_max_pu,
\* generator p_min_pu and storage-unit inflow that prepare_network returns is 0
\* where the input value was at or below T and the input value where it was
\* above T.
C22_ClipFloorsAtThreshold ==
    [][(PrepareStep /\ "clip_p_max_pu" \in DOMAIN cf_solving) =>
          LET T == cf_solving["clip_p_max_pu"]
              before == ClippedFrames(net)
              after == ClippedFrames(net')
          IN  \A f \in 1..3 :
                 /\ DOMAIN after[f] = DOMAIN before[f]
                 /\ \A c \in DOMAIN after[f] :
                       /\ Len(after[f][c]) = Len(net'.snapshots)
                       /\ \A t \in 1..Len(after[f][c]) :
                             after[f][c][t] = IF before[f][c][t] <= T THEN 0
                                              ELSE before[f][c][t]]_vars

\* T = 0.3: of the availabilities 0.5, 0.3, 0 only 0.5 is left, of the
\* minimum outputs 0.3, -0.2, 0.4 only 0.4, of the inflows 12, 0.3, 0 only 12
C22_Witness ==
    /\ pc = "prepared"
    /\ "clip_p_max_pu" \in DOMAIN cf_solving /\ cf_solving["clip_p_max_pu"] = 30
    /\ Len(net.snapshots) = 3
    /\ net.generators_t.p_max_pu["DE0 0 solar-2030"] = <<50, 0, 0>>
    /\ net.generators_t.p_min_pu["DE0 0 OCGT-2030"] = <<0, 0, 40>>
    /\ net.storage_units_t_inflow["DE0 0 hydro"] = <<1200, 0, 0>>

\* the generators prepare_network was given, as they are afterwards
Former(n, n2) == SubSeq(n2.generators, 1, Len(n.generators))

\* the generators of n2 named like the load-shedding generator of bus b
LoadGenerators(n2, b) ==
    {j \in 1..Len(n2.generators) : n2.generators[j].id = b.name \o " load"}

\* C23 as stated: with load_shedding enabled, prepare_network adds for every
\* bus exactly one generator named "<bus> load" at that bus with sign 1e-3,
\* marginal cost 1e2 and p_nom 1e9, changes no generator that was there, and
\* the number of generators grows by the number of buses.
C23_LoadSheddingPerBus ==
    [][(PrepareStep /\ OptionOn(cf_solving, "load_shedding")) =>
          /\ Len(net'.generators) = Len(net.generators) + Len(net.buses)
          /\ Former(net, net') = net.generators
          /\ \A i \in 1..Len(net.buses) :
                /\ Cardinality(LoadGenerators(net', net.buses[i])) = 1
                /\ \A j \in LoadGenerators(net', net.buses[i]) :
                      /\ j > Len(net.generators)
                      /\ net'.generators[j].bus = net.buses[i].name
                      /\ net'.generators[j].sign = 1
                      /\ net'.generators[j].marginal_cost = 10000000
                      /\ net'.generators[j].p_nom = 1000000000]_vars

\* C23 amended: with load_shedding enabled, prepare_network adds for every
\* bus exactly one generator named "<bus> load" at that bus with sign 1e-3 and
\* p_nom 1e9, and the number of generators grows by the number of buses; the
\* added generators have marginal cost 1e2 unless noisy_costs is enabled, and
\* of a generator that was there nothing changes but its marginal cost under
\* noisy_costs and its p_nom_max in myopic mode.
C23_LoadSheddingPerBusAmongOptions ==
    [][(PrepareStep /\ OptionOn(cf_solving, "load_shedding")) =>
          /\ Len(net'.generators) = Len(net.generators) + Len(net.buses)
          /\ \A k \in 1..Len(net.generators) :
                LET old == net.generators[k]
                    new == net'.generators[k]
                IN  /\ [new EXCEPT !.marginal_cost = 0, !.p_nom_max = 0]
                          = [old EXCEPT !.marginal_cost = 0, !.p_nom_max = 0]
                    /\ ~OptionOn(cf_solving, "noisy_costs")
                          => new.marginal_cost = old.marginal_cost
                    /\ cfg.foresight # "myopic" => new.p_nom_max = old.p_nom_max
          /\ \A i \in 1..Len(net.buses) :
                /\ Cardinality(LoadGenerators(net', net.buses[i])) = 1
                /\ \A j \in LoadGenerators(net', net.buses[i]) :
                      /\ j > Len(net.generators)
                      /\ net'.generators[j].bus = net.buses[i].name
                      /\ net'.generators[j].sign = 1
                      /\ net'.generators[j].p_nom = 1000000000
                      /\ ~OptionOn(cf_solving, "noisy_costs")
                            => net'.generators[j].marginal_cost = 10000000]_vars

\* three buses, load shedding with noisy costs: three generators "<bus> load"
\* follow the seven of the input, the first with a perturbed marginal cost
C23_Witness ==
    /\ pc = "prepared"
    /\ OptionOn(cf_solving, "load_shedding")
    /\ OptionOn(cf_solving, "noisy_costs")
    /\ Len(net.buses) = 3
    /\ Len(net.generators) = 10
    /\ net.generators[8].id = "DE0 0 load"
    /\ net.generators[10].id = "DE0 0 low voltage load"
    /\ net.generators[10].bus = "DE0 0 low voltage"
    /\ net.generators[8].marginal_cost # 10000000
    /\ "Load" \in net.carriers

\* marginal_cost and capital_cost of every component that carries them
Costs(n) ==
    [generators |-> [i \in 1..Len(n.generators) |-> n.generators[i].marginal_cost],
     links |-> [i \in 1..Len(n.links) |->
                   <<n.links[i].marginal_cost, n.links[i].capital_cost>>],
     lines |-> [i \in 1..Len(n.lines) |-> n.lines[i].capital_cost]]

\* C24: with noisy_costs enabled, the costs prepare_network returns do not
\* depend on the state numpy's generator was in: a run on the same network,
\* options and configuration from any other state returns the same
\* marginal_cost and capital_cost for every component.
C24_NoisyCostsDeterministic ==
    [][(PrepareStep /\ OptionOn(cf_solving, "noisy_costs")) =>
          \A r \in RngStates \cup {np_random'} :
             Costs(prepare_network(net, cf_solving, cfg, r).n) = Costs(net')]_vars

\* noisy costs on a network with generators, a line and two links: the first
\* generator's marginal cost carries the first draw after seed 174, the
\* line's capital cost the first draw after seed 123
C24_Witness ==
    /\ pc = "prepared"
    /\ OptionOn(cf_solving, "noisy_costs")
    /\ Len(net.lines) = 1 /\ Len(net.links) = 2
    /\ net.generators[1].marginal_cost = 1000 + 900 + 20 * Uniform(Seed(174))
    /\ net.generators[2].marginal_cost
          = 5000000 + 900 + 20 * Uniform(Advance(Seed(174)))
    /\ net.lines[1].capital_cost
          = 4000000 + (9000 + 200 * Uniform(Seed(123))) * 100
    /\ net.links[1].capital_cost
          = 9000000 + (9000 + 200 * Uniform(Seed(123))) * 50

\* C25: with nhours = N configured (N >= 1), prepare_network keeps exactly
\* the first N snapshots of the input, gives every snapshot the same weighting
\* and the weightings sum to 8760, whatever the number of input snapshots.
C25_FirstHoursSumTo8760 ==
    [][(PrepareStep /\ OptionOn(cf_solving, "nhours")) =>
          LET N == cf_solving["nhours"]
              kept == net'.snapshots
              w == net'.snapshot_weightings
          IN  /\ Len(kept) = N
              /\ \A i \in 1..Len(kept) : kept[i] = net.snapshots[i]
              /\ Len(w) = Len(kept)
              /\ \A i \in 1..Len(w) : w[i] = w[1]
              /\ Len(w) > 0 => Len(w) * w[1].num = 8760 * w[1].den]_vars

\* the year a generator was built in lies before the horizon h
Earlier(g, h) == g.build_year < YearInt(h)

\* the p_nom of the generators of n built before the horizon h with the
\* carrier of g, at a bus of the location of g's bus
BuiltEarlier(n, g, h) ==
    LET rows == {j \in 1..Len(n.generators) :
                    /\ n.generators[j].carrier = g.carrier
                    /\ BusLocation(n, n.generators[j].bus) = BusLocation(n, g.bus)
                    /\ Earlier(n.generators[j], h)}
    IN  SumSet(rows, [j \in rows |-> n.generators[j].p_nom])

\* the generators prepare_network was given keep their place; with load
\* shedding others follow them
SameGenerators(n, n2) ==
    /\ Len(n2.generators) >= Len(n.generators)
    /\ \A i \in 1..Len(n.generators) : n2.generators[i].id = n.generators[i].id

Tables(n) ==
    [buses |-> n.buses, carriers |-> n.carriers, generators |-> n.generators,
     generators_t |-> n.generators_t,
     storage_units_t_inflow |-> n.storage_units_t_inflow,
     lines |-> n.lines, links |-> n.links,
     snapshots |-> n.snapshots, snapshot_weightings |-> n.snapshot_weightings]

\* no option of prepare_network is enabled
NothingEnabled ==
    /\ "clip_p_max_pu" \notin DOMAIN cf_solving
    /\ "nhours" \notin DOMAIN cf_solving
    /\ "load_shedding" \in DOMAIN cf_solving => cf_solving["load_shedding"] = 0
    /\ "noisy_costs" \in DOMAIN cf_solving => cf_solving["noisy_costs"] = 0
    /\ cfg.foresight # "myopic"

\* C30: called with clip_p_max_pu and nhours absent and load_shedding and
\* noisy_costs false or absent, in a run that is not myopic, prepare_network
\* returns the network with every component table, time series, the
\* snapshots and the snapshot weightings as they were.
C30_DisabledOptionsNoOp ==
    [][(PrepareStep /\ NothingEnabled) => Tables(net') = Tables(net)]_vars

\* prepare_network has run with an empty options dict on a network with a
\* line volume limit: the limit is read into the attribute, the rest is as
\* it was
C30_Witness ==
    /\ pc = "prepared"
    /\ DOMAIN cf_solving = {}
    /\ cfg.foresight = "overnight"
    /\ net.line_volume_limit.set
    /\ Len(net.generators) = 7
    /\ net.generators[1].marginal_cost = 1000
    /\ net.snapshot_weightings = <<Ratio(3, 1), Ratio(3, 1), Ratio(3, 1)>>

C28_ConfigAndOptsAttached ==
    /\ (pc = "opt_callback" /\ kwargs.callback) => (n_config /\ n_opts.attached)
    /\ exc # "AttributeError"

\* C29: whenever monthly_constraints is called with additionality set (the
\* matching is monthly and is_reference false), the reference network is
\* loaded and not None, in sector-coupled runs and in the others.
C29_ReferenceLoadedForAdditionality ==
    \A k \in 1..Len(problems) :
        (CountCalls(problems[k].calls, "monthly_constraints") > 0
            /\ cfg.additionality) => n_ref # "None"

====
